---------------------------- MODULE Spec2Model ----------------------------
(***************************************************************************)
(* Shiri bridge: group lifecycle (Tui.cpp createGroupFlow/deleteGroupFlow  *)
(* with the detached create worker), port allocation, the discovery merge, *)
(* the PCM ingest callback and the per-group RAOP streamer loop.           *)
(*                                                                         *)
(* Every std::lock_guard<std::mutex> lock(stateMutex) section of the code  *)
(* is one atomic action; the code between two sections is a position (pc)  *)
(* of the thread that runs it.                                             *)
(*                                                                         *)
(* Bytes are modelled by where they come from: a byte string is a sequence *)
(* of segments [src, off, len], "len bytes of the stream of receiver       *)
(* process src starting at stream offset off"; src = 0 is the all-zero     *)
(* (silence) source.  Adjacent segments that continue each other are        *)
(* merged, so equal byte strings have equal representations.               *)
(***************************************************************************)
EXTENDS Integers, Sequences, FiniteSets, TLC

VARIABLES
    speakerStates,   \* std::map<std::string, SpeakerState>
    groups,          \* std::map<std::string, GroupInfo>
    workers,         \* detached create workers that have not yet taken the lock
    threads,         \* streamer threads (groupStreamerLoop), by id
    procs,           \* Shairport receiver objects, by id
    ui,              \* the UI thread: position inside create / delete flow
    nextId,          \* number of create flows that inserted a group so far
    chunkCounter,    \* std::atomic<uint64_t> chunkCounter
    crashed,         \* std::terminate was called (joinable std::thread destroyed/assigned)
    env,             \* what the environment may still do (bounds of the exploration)
    lastReal,        \* history: per speaker, the last real chunk passed to sendAudioChunk
    dropped,         \* history: chunks removed from a queue by ingest overflow
    raop,            \* one RaopHostage object looked at on its own, field by field
    arrival,         \* history: the silence passed on since PCM arrived after silence
    locks,           \* stateMutex and the place of every task in its lock sections
    shairport,       \* one Shairport object looked at on its own, with its child
    discovery,       \* the Discovery object looked at on its own
    pulseCounter,    \* int pulseCounter of Tui::Run: ticks since the last pulse round
    event            \* history: the last operation and what it did

vars == <<speakerStates, groups, workers, threads, procs, ui, nextId,
          chunkCounter, crashed, env, lastReal, dropped, raop,
          arrival, locks, shairport, discovery, pulseCounter, event>>

-----------------------------------------------------------------------------
(* Program constants *)

kAudioBytesPerFrame == 4
kFramesPerChunk == 352
kChunkBytes == kAudioBytesPerFrame * kFramesPerChunk
kMaxQueuedChunks == 16
kBaseGroupPort == 6000
kMaxGroupPort == 20000
kReadBufferBytes == 4096

(* Bounds of the exploration *)

MaxCreates == 2          \* create flows that insert a group, per behaviour
AudioChunks == 17        \* PCM the receiver delivers under SpecAudio, in chunks
MaxSilence == 1          \* silence chunks a streamer may synthesize, per behaviour
PresenceChunks == 2      \* PCM the receiver delivers under SpecPresence, in chunks
PauseChunks == 2         \* PCM the receiver delivers under SpecPause, in chunks
PauseSilence == 3        \* silence chunks the streamer may synthesize under SpecPause
RechunkChunks == 4       \* PCM the receiver delivers under SpecRechunk, in chunks

SpeakerIds == {"A", "B"}
GroupNames == {"g1", "g2"}
\* sizes of the buffers the receiver's reader hands to the callback, among
\* 1 .. kReadBufferBytes: half a chunk, one chunk, two chunks and a half
IngestSizes == {kChunkBytes \div 2, kChunkBytes, 5 * (kChunkBytes \div 2)}

-----------------------------------------------------------------------------
(* Byte strings *)

Seg(src, off, len) == [src |-> src, off |-> off, len |-> len]

RECURSIVE Size(_)
Size(b) == IF b = <<>> THEN 0 ELSE Head(b).len + Size(Tail(b))

\* a plausible slip: the new bytes are inserted at the front of pending
InsertAtFront(a, b) == b \o a

\* a followed by b, as pending.insert(pending.end(), ...) leaves it; two
\* segments that are adjacent in their source are written as one
Concat(a, b) ==
    IF a = <<>> THEN b
    ELSE IF b = <<>> THEN a
    ELSE LET l == a[Len(a)]
             f == b[1]
         IN IF l.src = f.src /\ l.off + l.len = f.off
            THEN SubSeq(a, 1, Len(a) - 1)
                 \o <<Seg(l.src, l.off, l.len + f.len)>>
                 \o Tail(b)
            ELSE a \o b

\* the first n bytes of b (n <= Size(b))
RECURSIVE TakeBytes(_, _)
TakeBytes(b, n) ==
    IF n = 0 \/ b = <<>> THEN <<>>
    ELSE IF Head(b).len <= n
         THEN <<Head(b)>> \o TakeBytes(Tail(b), n - Head(b).len)
         ELSE <<Seg(Head(b).src, Head(b).off, n)>>

\* b without its first n bytes (n <= Size(b))
RECURSIVE DropBytes(_, _)
DropBytes(b, n) ==
    IF n = 0 \/ b = <<>> THEN b
    ELSE IF Head(b).len <= n
         THEN DropBytes(Tail(b), n - Head(b).len)
         ELSE <<Seg(Head(b).src, Head(b).off + n, Head(b).len - n)>> \o Tail(b)

SilenceChunk == <<Seg(0, 0, kChunkBytes)>>

Range(s) == {s[i] : i \in DOMAIN s}

-----------------------------------------------------------------------------
(* Rows *)

\* the addresses a speaker is published under; "" is the address of a
\* default-constructed Speaker
Infos == {"ip1", "ip2"}

\* SpeakerState{}: hostage is "null" (no object), "down" (object, connected_
\* false) or "up" (object, connected_ true)
NewSpeakerState ==
    [info |-> "", connected |-> FALSE, reserved |-> FALSE, hostage |-> "null"]

\* the order of std::map<std::string, SpeakerState> iteration
SpeakerOrder == <<"A", "B">>

\* GroupInfo{}: process and streamerThread hold an object id, 0 when empty
NewGroupInfo(port, ids) ==
    [port |-> port, speakerIds |-> ids, process |-> 0, chunkQueue |-> <<>>,
     pendingBytes |-> <<>>, streamerThread |-> 0, streamerRunning |-> FALSE,
     consecutiveSilenceChunks |-> 0]

UiIdle == [pc |-> "idle"]

\* no RaopHostage object is looked at on its own
NoHostage == <<>>

\* arrival while no behaviour of the audio path is being timed
NotObserved == <<>>

\* locks while the lock sections are taken as single steps
NoTasks == <<>>

\* shairport and discovery while the two objects are not looked at
NoReceiver == <<>>

NoBrowser == <<>>

NoEvent == [op |-> "none"]

\* the members of a group that are listed in it, as a set
Members(g) == Range(groups[g].speakerIds)

-----------------------------------------------------------------------------
(* Port allocation *)

UsedPorts == {groups[g].port : g \in DOMAIN groups}

\* a plausible slip: the candidates are tried from the top of the range down
RECURSIVE ScanPortsDescending(_, _, _)
ScanPortsDescending(port, limit, used) ==
    IF port >= limit THEN -1
    ELSE IF port + 1 = limit THEN (IF port \notin used THEN port ELSE -1)
    ELSE LET mid == (port + limit) \div 2
             found == ScanPortsDescending(mid, limit, used)
         IN  IF found >= 0 THEN found
             ELSE ScanPortsDescending(port, mid, used)

\* the scan loop of allocatePortLocked over the candidates port .. limit - 1:
\* the first candidate, in ascending order, that no row uses, or -1.  The
\* range is scanned lower half first, which keeps the evaluation shallow.
RECURSIVE ScanPorts(_, _, _)
ScanPorts(port, limit, used) ==
    IF port >= limit THEN -1
    ELSE IF port + 1 = limit THEN (IF port \notin used THEN port ELSE -1)
    ELSE LET mid == (port + limit) \div 2
             found == ScanPorts(port, mid, used)
         IN  IF found >= 0 THEN found ELSE ScanPorts(mid, limit, used)

\* a plausible slip: hand out the base port without looking at the used set
AllocatePortNoScan(used) == kBaseGroupPort

\* allocatePortLocked over the set of ports in use
AllocatePort(used) == ScanPorts(kBaseGroupPort, kMaxGroupPort, used)

allocatePortLocked == AllocatePort(UsedPorts)

-----------------------------------------------------------------------------
(* createGroupFlow, on the UI thread *)

Alive == ~crashed

\* the value of a std::vector<std::string> built by walking the speaker map
IdsInOrder(S) == SelectSeq(SpeakerOrder, LAMBDA id : id \in S)

\* Tui.cpp:738-759: the speakers offered for selection
Available ==
    {id \in DOMAIN speakerStates :
        speakerStates[id].connected /\ ~speakerStates[id].reserved}

\* a plausible slip: the duplicate check is left out
NameNeverTaken(name) == FALSE

\* Tui.cpp:741: if (groups.count(name))
NameTaken(name) == name \in DOMAIN groups

\* Tui.cpp:713-767: name prompt, duplicate check and availability snapshot.
\* name = "" is the empty line.
CreateBegin(name) ==
    /\ Alive
    /\ ui.pc = "idle"
    /\ nextId < MaxCreates
    /\ IF name = "" \/ NameTaken(name) \/ Available = {}
       THEN /\ ui' = UiIdle
            /\ event' = [op |-> "createCancelled", name |-> name,
                         why |-> IF name = "" THEN "empty name"
                                 ELSE IF NameTaken(name) THEN "name exists"
                                 ELSE "no speaker available"]
       ELSE /\ ui' = [pc |-> "selecting", name |-> name, available |-> Available]
            /\ event' = [op |-> "createBegin", name |-> name]
    /\ UNCHANGED <<speakerStates, groups, workers, threads, procs, nextId,
                   chunkCounter, crashed, env, lastReal, dropped, raop,
                   arrival, locks, shairport, discovery,
                   pulseCounter>>

\* Tui.cpp:769-813: the selection UIs are left with Esc/Q, or no interface
CreateCancel ==
    /\ Alive
    /\ ui.pc = "selecting"
    /\ ui' = UiIdle
    /\ event' = [op |-> "createCancelled", name |-> ui.name,
                 why |-> "no speaker selected"]
    /\ UNCHANGED <<speakerStates, groups, workers, threads, procs, nextId,
                   chunkCounter, crashed, env, lastReal, dropped, raop,
                   arrival, locks, shairport, discovery,
                   pulseCounter>>

\* Tui.cpp:769-909: speakers chosen among the snapshot, then port allocation
\* and the insertion of the skeletal row under the lock, then the worker is
\* launched (std::thread(...).detach())
CreateInsert(chosen) ==
    /\ Alive
    /\ ui.pc = "selecting"
    /\ chosen # {}
    /\ chosen \subseteq ui.available
    /\ LET port == allocatePortLocked
           ids == IdsInOrder(chosen)
       IN IF port < 0
          THEN /\ event' = [op |-> "createCancelled", name |-> ui.name,
                            why |-> "no free port"]
               /\ UNCHANGED <<groups, workers, nextId>>
          ELSE /\ groups' = [g \in DOMAIN groups \cup {ui.name} |->
                                IF g = ui.name THEN NewGroupInfo(port, ids)
                                ELSE groups[g]]
               /\ nextId' = nextId + 1
               /\ workers' = [w \in DOMAIN workers \cup {nextId + 1} |->
                                IF w = nextId + 1
                                THEN [name |-> ui.name, chosenIds |-> ids,
                                      port |-> port]
                                ELSE workers[w]]
               /\ event' = [op |-> "createInsert", name |-> ui.name,
                            port |-> port, used |-> UsedPorts]
    /\ ui' = UiIdle
    /\ UNCHANGED <<speakerStates, threads, procs, chunkCounter, crashed, env,
                   lastReal, dropped, raop, arrival, locks,
                   shairport, discovery,
                   pulseCounter>>

-----------------------------------------------------------------------------
(* The detached create worker, Tui.cpp:841-900: one lock section *)

\* seen, stalled and reconnects are history: the members whose row was
\* connected when the head section of the current iteration ran, whether the
\* previous readiness loop found a hostage not ready, and the number of
\* disconnect() + connect() pairs the current iteration has called
NewThread(name) ==
    [group |-> name, pc |-> "head", chunk |-> <<>>, isSilence |-> FALSE,
     hostages |-> <<>>, idx |-> 0, seen |-> {}, stalled |-> FALSE,
     reconnects |-> 0]

NewProc(name) == [name |-> name, running |-> TRUE, bytes |-> 0]

\* the members for which the worker constructs a RaopHostage (Tui.cpp:852-858:
\* a row without a hostage whose Speaker has an address)
NeedsHostage(ids) ==
    {id \in Range(ids) :
        /\ id \in DOMAIN speakerStates
        /\ speakerStates[id].hostage = "null"
        /\ speakerStates[id].info # ""}

\* Tui.cpp:852-866 with connect() succeeding exactly for the ids in ok
WithHostages(ids, ok) ==
    [id \in DOMAIN speakerStates |->
        IF id \in NeedsHostage(ids)
        THEN [speakerStates[id] EXCEPT
                 !.hostage = IF id \in ok THEN "up" ELSE "down"]
        ELSE speakerStates[id]]

\* a plausible slip: the worker forgets to mark the members
ReserveNothing(states, ids) == states

\* Tui.cpp:893-895: speakerStates[id].reserved = true (operator[] inserts)
Reserve(states, ids) ==
    [id \in DOMAIN states \cup Range(ids) |->
        IF id \in Range(ids)
        THEN [(IF id \in DOMAIN states THEN states[id] ELSE NewSpeakerState)
                 EXCEPT !.reserved = TRUE]
        ELSE states[id]]

\* The field held of an event names the blocking calls its step makes while
\* stateMutex is held.  The worker's lock_guard (Tui.cpp:843) covers connect()
\* with its reachability probe (Tui.cpp:859) and, when the row has a receiver
\* already, the stop() in the destructor of the one replaced (Tui.cpp:890).

\* Shairport::stop on process object p (0: no object): the reader is joined
Stopped(ps, p) ==
    [q \in DOMAIN ps |-> IF q = p THEN [ps[q] EXCEPT !.running = FALSE] ELSE ps[q]]

\* ~Shairport on process object p (0: no object): stop(), and the object is gone
Destroyed(ps, p) == [q \in DOMAIN ps \ {p} |-> ps[q]]

Worker(w, ok) ==
    /\ Alive
    /\ w \in DOMAIN workers
    /\ workers' = [v \in DOMAIN workers \ {w} |-> workers[v]]
    /\ LET name == workers[w].name
           ids == workers[w].chosenIds
       IN IF name \notin DOMAIN groups
          THEN /\ ok = {}
               /\ event' = [op |-> "workerNoGroup", id |-> w, name |-> name]
               /\ UNCHANGED <<speakerStates, groups, threads, procs, crashed>>
          ELSE /\ ok \subseteq NeedsHostage(ids)
               /\ procs' = [q \in (DOMAIN procs \ {groups[name].process})
                                     \cup {w} |->
                               IF q = w THEN NewProc(name)
                               ELSE procs[q]]
               /\ threads' = [t \in DOMAIN threads \cup {w} |->
                                 IF t = w THEN NewThread(name) ELSE threads[t]]
               /\ IF groups[name].streamerThread # 0
                  THEN \* std::thread::operator= on a joinable thread
                       /\ crashed' = TRUE
                       /\ speakerStates' = WithHostages(ids, ok)
                       /\ groups' = [groups EXCEPT
                                        ![name].process = w,
                                        ![name].streamerRunning = TRUE]
                  ELSE /\ crashed' = crashed
                       /\ speakerStates' = Reserve(WithHostages(ids, ok), ids)
                       /\ groups' = [groups EXCEPT
                                        ![name].process = w,
                                        ![name].streamerRunning = TRUE,
                                        ![name].streamerThread = w]
               /\ event' = [op |-> "worker", id |-> w, name |-> name,
                            hadThread |-> groups[name].streamerThread # 0,
                            hadProcess |-> groups[name].process # 0,
                            held |-> (IF NeedsHostage(ids) # {}
                                      THEN {"probe", "connect"} ELSE {})
                                     \cup (IF groups[name].process # 0
                                           THEN {"stop"} ELSE {})]
    /\ UNCHANGED <<ui, nextId, chunkCounter, env, lastReal, dropped, raop,
                   arrival, locks, shairport, discovery,
                   pulseCounter>>

-----------------------------------------------------------------------------
(* deleteGroupFlow, on the UI thread *)

\* Tui.cpp:918-953: the highlighted group is resolved and, in the next lock
\* section, its streamer handle and receiver are taken out of the row.  Only
\* the UI thread inserts or erases rows, so the name resolved in the first
\* section is found in the second.
DeleteBegin(name) ==
    /\ Alive
    /\ ui.pc = "idle"
    /\ name \in DOMAIN groups
    /\ ui' = [pc |-> "joining", name |-> name,
              streamer |-> groups[name].streamerThread,
              processToStop |-> groups[name].process,
              speakers |-> groups[name].speakerIds]
    /\ groups' = [groups EXCEPT ![name].streamerRunning = FALSE,
                                ![name].streamerThread = 0,
                                ![name].process = 0]
    /\ event' = [op |-> "deleteBegin", name |-> name]
    /\ UNCHANGED <<speakerStates, workers, threads, procs, nextId,
                   chunkCounter, crashed, env, lastReal, dropped, raop,
                   arrival, locks, shairport, discovery,
                   pulseCounter>>

\* Tui.cpp:955-960: streamer.join() returns once the thread has left
\* groupStreamerLoop; then processToStop->stop()
DeleteJoin ==
    /\ Alive
    /\ ui.pc = "joining"
    /\ ui.streamer # 0 => threads[ui.streamer].pc = "exited"
    /\ threads' = [t \in DOMAIN threads \ {ui.streamer} |-> threads[t]]
    /\ procs' = Stopped(procs, ui.processToStop)
    /\ ui' = [ui EXCEPT !.pc = "erasing"]
    /\ event' = [op |-> "deleteJoin", name |-> ui.name]
    /\ UNCHANGED <<speakerStates, groups, workers, nextId,
                   chunkCounter, crashed, env, lastReal, dropped, raop,
                   arrival, locks, shairport, discovery,
                   pulseCounter>>

\* a plausible slip: the members stay reserved when their group goes
ReleaseNothing(states, ids) == states

\* Tui.cpp:966-975: reserved = false and hostage.reset() for each member
Release(states, ids) ==
    [id \in DOMAIN states |->
        IF id \in Range(ids)
        THEN [states[id] EXCEPT !.reserved = FALSE, !.hostage = "null"]
        ELSE states[id]]

\* Tui.cpp:962-983.  Erasing the row destroys its GroupInfo: a joinable
\* streamerThread ends the program (std::terminate) before the process member
\* is destroyed; otherwise a process still owned by the row is destroyed.
\* processToStop is destroyed when the flow returns.
DeleteErase ==
    /\ Alive
    /\ ui.pc = "erasing"
    /\ IF ui.name \in DOMAIN groups
       THEN /\ speakerStates' = Release(speakerStates, ui.speakers)
            /\ groups' = [g \in DOMAIN groups \ {ui.name} |-> groups[g]]
            /\ crashed' = (groups[ui.name].streamerThread # 0)
            /\ procs' = IF groups[ui.name].streamerThread # 0 THEN procs
                        ELSE Destroyed(Destroyed(procs, ui.processToStop),
                                       groups[ui.name].process)
            /\ event' = [op |-> "deleteErase", name |-> ui.name,
                         port |-> groups[ui.name].port,
                         thread |-> groups[ui.name].streamerThread,
                         process |-> groups[ui.name].process]
       ELSE /\ event' = [op |-> "deleteErase", name |-> ui.name, port |-> -1,
                         thread |-> 0, process |-> 0]
            /\ procs' = Destroyed(procs, ui.processToStop)
            /\ UNCHANGED <<speakerStates, groups, crashed>>
    /\ ui' = UiIdle
    /\ UNCHANGED <<workers, threads, nextId, chunkCounter, env, lastReal,
                   dropped, raop, arrival, locks, shairport, discovery,
                   pulseCounter>>

-----------------------------------------------------------------------------
(* The discovery callback, main.cpp:863-885 *)

\* the snapshots Discovery can publish when the speakers answer under the
\* addresses infos: a Speaker (here its address) for each id that answered
Snapshots(infos) == UNION {[S -> infos] : S \in SUBSET SpeakerIds}

\* a plausible slip: a speaker that went offline keeps its hostage
MergeKeepingHostages(states, snapshot) ==
    [id \in DOMAIN states \cup DOMAIN snapshot |->
        IF id \in DOMAIN snapshot
        THEN [(IF id \in DOMAIN states THEN states[id] ELSE NewSpeakerState)
                 EXCEPT !.info = snapshot[id], !.connected = TRUE]
        ELSE [states[id] EXCEPT !.connected = FALSE]]

\* a plausible slip: a row that was already offline is compacted away when
\* it is absent again
MergeCompacting(states, snapshot) ==
    [id \in {i \in DOMAIN states : states[i].connected} \cup DOMAIN snapshot |->
        IF id \in DOMAIN snapshot
        THEN [(IF id \in DOMAIN states THEN states[id] ELSE NewSpeakerState)
                 EXCEPT !.info = snapshot[id], !.connected = TRUE]
        ELSE [states[id] EXCEPT !.connected = FALSE, !.hostage = "null"]]

\* main.cpp:865-883: state.info = speaker and connected = true for the ids
\* of the snapshot (operator[] inserts the row), connected = false and
\* hostage.reset() for the others
Merge(states, snapshot) ==
    [id \in DOMAIN states \cup DOMAIN snapshot |->
        IF id \in DOMAIN snapshot
        THEN [(IF id \in DOMAIN states THEN states[id] ELSE NewSpeakerState)
                 EXCEPT !.info = snapshot[id], !.connected = TRUE]
        ELSE [states[id] EXCEPT !.connected = FALSE, !.hostage = "null"]]

Discovery(snapshot) ==
    /\ Alive
    /\ speakerStates' = Merge(speakerStates, snapshot)
    /\ event' = [op |-> "discovery", snapshot |-> snapshot]
    /\ UNCHANGED <<groups, workers, threads, procs, ui, nextId, chunkCounter,
                   crashed, env, lastReal, dropped, raop, arrival, locks,
                   shairport, discovery,
                   pulseCounter>>

-----------------------------------------------------------------------------
(* The PCM callback installed on the receiver, Tui.cpp:869-887 *)

\* a plausible slip: the loop stops one byte late
HasFullChunkOffByOne(pending) == Size(pending) > kChunkBytes

\* Tui.cpp:877: while (pending.size() >= kChunkBytes)
HasFullChunk(pending) == Size(pending) >= kChunkBytes

\* a plausible slip: the newest chunk is dropped
DropNewest(queue) ==
    IF Len(queue) > kMaxQueuedChunks THEN SubSeq(queue, 1, Len(queue) - 1)
    ELSE queue

\* Tui.cpp:882-884: if (queue.size() > kMaxQueuedChunks) queue.pop_front()
DropOverflow(queue) ==
    IF Len(queue) > kMaxQueuedChunks THEN Tail(queue) ELSE queue

\* Tui.cpp:877-885.  steps records every pass of the loop that found the
\* queue longer than kMaxQueuedChunks after its emplace_back: how long the
\* queue was before, the chunks queued after the emplace_back, what the pass
\* removed and the queue it left.
RECURSIVE Carve(_, _, _, _)
Carve(pending, queue, carved, steps) ==
    IF HasFullChunk(pending)
    THEN LET chunk == TakeBytes(pending, kChunkBytes)
             q1 == Append(queue, chunk)
             q2 == DropOverflow(q1)
         IN Carve(DropBytes(pending, kChunkBytes), q2, carved + 1,
                  IF Len(q1) > kMaxQueuedChunks
                  THEN Append(steps, [lenBefore |-> Len(queue),
                                      queued |-> Range(q1),
                                      removed |-> Range(q1) \ Range(q2),
                                      after |-> q2])
                  ELSE steps)
    ELSE [pending |-> pending, queue |-> queue, carved |-> carved,
          steps |-> steps]

\* the chunks a sequence of overflow steps removed from the queue
RemovedBy(steps) == UNION {st.removed : st \in Range(steps)}

\* History kept while arrival is observed.  any: the silence chunks passed to
\* the send loop since PCM arrived after silence (-1: no such arrival since
\* the last real chunk was passed on); queued: the same since such an arrival
\* queued a chunk; run: the silence chunks passed to the send loop since the
\* last real one; logged: the N of the "Audio resumed after N silence chunks"
\* line of the current iteration (0: no line).
Observed == [any |-> -1, queued |-> -1, run |-> 0, logged |-> 0]

ArrivalIngest(a, afterSilence, carved) ==
    IF a = NotObserved \/ ~afterSilence THEN a
    ELSE [a EXCEPT !.any = IF a.any < 0 THEN 0 ELSE a.any,
                   !.queued = IF a.queued < 0 /\ carved > 0 THEN 0
                              ELSE a.queued]

ArrivalPop(a, resumedAfter) ==
    IF a = NotObserved THEN a ELSE [a EXCEPT !.logged = resumedAfter]

ArrivalCount(a, isSilence) ==
    IF a = NotObserved THEN a
    ELSE IF ~isSilence THEN Observed
    ELSE [a EXCEPT !.any = IF a.any < 0 THEN a.any ELSE a.any + 1,
                   !.queued = IF a.queued < 0 THEN a.queued
                              ELSE a.queued + 1,
                   !.run = a.run + 1]

\* a plausible slip: the callback leaves the silence counter alone
SilenceKeptOnIngest(count) == count

\* Tui.cpp:886: consecutiveSilenceChunks = 0 at the end of every callback
\* that found its group
SilenceOnIngest(count) == 0

\* The reader thread of process p delivers size bytes (1 <= size <= 4096,
\* Shairport.cpp:297-304: a read of 0 bytes ends the reader instead).
Ingest(p, size) ==
    /\ Alive
    /\ p \in DOMAIN procs
    /\ procs[p].running
    /\ size <= env.bytes
    /\ env' = [env EXCEPT !.bytes = @ - size]
    /\ procs' = [procs EXCEPT ![p].bytes = @ + size]
    /\ LET g == procs[p].name
           data == <<Seg(p, procs[p].bytes, size)>>
       IN IF g \notin DOMAIN groups
          THEN /\ event' = [op |-> "ingestNoGroup", proc |-> p, size |-> size]
               /\ UNCHANGED <<groups, dropped, arrival, locks,
                              shairport, discovery,
                              pulseCounter>>
          ELSE LET r == Carve(Concat(groups[g].pendingBytes, data),
                              groups[g].chunkQueue, 0, <<>>)
               IN /\ groups' = [groups EXCEPT
                                   ![g].pendingBytes = r.pending,
                                   ![g].chunkQueue = r.queue,
                                   ![g].consecutiveSilenceChunks =
                                       SilenceOnIngest(@)]
                  /\ dropped' = dropped \cup RemovedBy(r.steps)
                  /\ arrival' =
                         ArrivalIngest(arrival,
                                       groups[g].consecutiveSilenceChunks > 0,
                                       r.carved)
                  /\ event' = [op |-> "ingest", proc |-> p, group |-> g,
                               size |-> size, carved |-> r.carved,
                               steps |-> r.steps]
    /\ UNCHANGED <<speakerStates, workers, threads, ui, nextId, chunkCounter,
                   crashed, lastReal, raop, locks, shairport, discovery,
                   pulseCounter>>

-----------------------------------------------------------------------------
(* groupStreamerLoop, main.cpp:113-236 *)

\* main.cpp:136-141 / 147-152: the members with a connected hostage
ConnectedHostages(g) ==
    SelectSeq(groups[g].speakerIds,
              LAMBDA id : id \in DOMAIN speakerStates
                          /\ speakerStates[id].hostage = "up")

\* the members whose row says connected
ConnectedMembers(g) ==
    {id \in Members(g) :
        id \in DOMAIN speakerStates /\ speakerStates[id].connected}

\* a plausible slip: silence of one frame too many
SilenceTooLong == <<Seg(0, 0, kChunkBytes + kAudioBytesPerFrame)>>

\* main.cpp:144: chunk.resize(kChunkBytes, 0)
MakeSilence == SilenceChunk

\* a plausible slip: the newest chunk is taken instead of the oldest
PopBack(queue) == [chunk |-> queue[Len(queue)],
                   rest |-> SubSeq(queue, 1, Len(queue) - 1)]

\* main.cpp:130-131: chunk = std::move(queue.front()); queue.pop_front()
PopFront(queue) == [chunk |-> Head(queue), rest |-> Tail(queue)]

\* a plausible slip: the streamer waits until two chunks are queued
HasTwoChunks(queue) == Len(queue) > 1

\* main.cpp:129: if (!queue.empty())
HasChunk(queue) == queue # <<>>

\* main.cpp:119-154: the lock section at the head of an iteration
StreamerPop(t) ==
    /\ Alive
    /\ t \in DOMAIN threads
    /\ threads[t].pc = "head"
    /\ LET g == threads[t].group
       IN IF g \notin DOMAIN groups \/ ~groups[g].streamerRunning
          THEN /\ threads' = [threads EXCEPT ![t].pc = "exited"]
               /\ event' = [op |-> "streamerExit", thread |-> t, group |-> g]
               /\ UNCHANGED <<groups, env, arrival>>
          ELSE IF HasChunk(groups[g].chunkQueue)
          THEN LET popped == PopFront(groups[g].chunkQueue)
               IN /\ groups' = [groups EXCEPT ![g].chunkQueue = popped.rest]
                  /\ threads' = [threads EXCEPT
                                    ![t].pc = "gate",
                                    ![t].chunk = popped.chunk,
                                    ![t].isSilence = FALSE,
                                    ![t].hostages = ConnectedHostages(g),
                                    ![t].idx = 0,
                                    ![t].seen = ConnectedMembers(g),
                                    ![t].reconnects = 0]
                  /\ event' = [op |-> "pop", thread |-> t, group |-> g,
                               silence |-> FALSE, chunk |-> popped.chunk,
                               queued |-> Len(groups[g].chunkQueue),
                               resumedAfter |->
                                   groups[g].consecutiveSilenceChunks]
                  /\ arrival' =
                         ArrivalPop(arrival,
                                    groups[g].consecutiveSilenceChunks)
                  /\ UNCHANGED env
          ELSE /\ env.silence > 0
               /\ env' = [env EXCEPT !.silence = @ - 1]
               /\ threads' = [threads EXCEPT
                                 ![t].pc = "gate",
                                 ![t].chunk = MakeSilence,
                                 ![t].isSilence = TRUE,
                                 ![t].hostages = ConnectedHostages(g),
                                 ![t].idx = 0,
                                 ![t].seen = ConnectedMembers(g),
                                 ![t].reconnects = 0]
               /\ event' = [op |-> "pop", thread |-> t, group |-> g,
                            silence |-> TRUE, chunk |-> MakeSilence,
                            queued |-> Len(groups[g].chunkQueue),
                            resumedAfter |-> 0]
               /\ arrival' = ArrivalPop(arrival, 0)
               /\ UNCHANGED groups
    /\ UNCHANGED <<speakerStates, workers, procs, ui, nextId, chunkCounter,
                   crashed, lastReal, dropped, raop, locks, shairport,
                   discovery,
                   pulseCounter>>

\* The readiness loop can report a stall for a snapshotted hostage that is
\* connected when it is asked; a hostage destroyed since the snapshot leaves
\* a dangling pointer, whose answer is anything.
CanStall(t) ==
    \E id \in Range(threads[t].hostages) : speakerStates[id].hostage # "down"

\* main.cpp:156-180 up to the decision; stall is what the readiness loop
\* found.  The loop logs and breaks: it calls neither disconnect() nor
\* connect(), and writes no field of the row.  first: no stall in the
\* readiness loop before this one.
StreamerGate(t, stall) ==
    /\ Alive
    /\ t \in DOMAIN threads
    /\ threads[t].pc = "gate"
    /\ stall => CanStall(t)
    /\ threads' = [threads EXCEPT
                      ![t].pc = IF threads[t].chunk = <<>> THEN "head"
                                ELSE IF stall /\ ~threads[t].isSilence
                                     THEN "requeue"
                                     ELSE "count",
                      ![t].stalled = stall]
    /\ event' = [op |-> "gate", thread |-> t, stall |-> stall,
                 silence |-> threads[t].isSilence,
                 first |-> stall /\ ~threads[t].stalled]
    /\ UNCHANGED <<speakerStates, groups, workers, procs, ui, nextId,
                   chunkCounter, crashed, env, lastReal, dropped, raop,
                   arrival, locks, shairport, discovery,
                   pulseCounter>>

\* a plausible slip: the chunk is put back behind the chunks that arrived
\* while the gate was waiting
PushBack(queue, chunk) == Append(queue, chunk)

\* main.cpp:176, chunkQueue.emplace_front
PushFront(queue, chunk) == <<chunk>> \o queue

\* main.cpp:172-180: the chunk goes back to the front of the queue.  The
\* lock_guard of line 173 lives to the end of the block, past the sleep_for
\* of line 178.
StreamerRequeue(t) ==
    /\ Alive
    /\ t \in DOMAIN threads
    /\ threads[t].pc = "requeue"
    /\ LET g == threads[t].group
       IN groups' = IF g \in DOMAIN groups
                    THEN [groups EXCEPT
                             ![g].chunkQueue =
                                 PushFront(@, threads[t].chunk)]
                    ELSE groups
    /\ threads' = [threads EXCEPT ![t].pc = "head", ![t].chunk = <<>>]
    /\ event' = [op |-> "requeue", thread |-> t, group |-> threads[t].group,
                 chunk |-> threads[t].chunk, held |-> {"sleep"},
                 behind |-> IF threads[t].group \in DOMAIN groups
                            THEN Len(groups[threads[t].group].chunkQueue)
                            ELSE 0]
    /\ UNCHANGED <<speakerStates, workers, procs, ui, nextId, chunkCounter,
                   crashed, env, lastReal, dropped, raop, arrival, locks,
                   shairport, discovery,
                   pulseCounter>>

\* a plausible slip: a real chunk counts as one more silence chunk
SilenceTrackingNoReset(count, isSilence) == count + 1

\* main.cpp:189-193
SilenceTracking(count, isSilence) == IF isSilence THEN count + 1 ELSE 0

\* main.cpp:182-195: ++chunkCounter and the silence tracking
StreamerCount(t) ==
    /\ Alive
    /\ t \in DOMAIN threads
    /\ threads[t].pc = "count"
    /\ chunkCounter' = chunkCounter + 1
    /\ LET g == threads[t].group
       IN groups' = IF g \in DOMAIN groups
                    THEN [groups EXCEPT
                             ![g].consecutiveSilenceChunks =
                                 SilenceTracking(@, threads[t].isSilence)]
                    ELSE groups
    /\ threads' = [threads EXCEPT ![t].pc = "send", ![t].idx = 1]
    /\ arrival' = ArrivalCount(arrival, threads[t].isSilence)
    /\ event' = [op |-> "count", thread |-> t, group |-> threads[t].group,
                 silence |-> threads[t].isSilence]
    /\ UNCHANGED <<speakerStates, workers, procs, ui, nextId, crashed, env,
                   lastReal, dropped, raop, locks, shairport, discovery,
                   pulseCounter>>

\* main.cpp:197-220, one pass of the loop: the hostage at idx.  The send is
\* made without the lock, the inline reconnect under it (main.cpp:203-213).  use: the
\* hostage passes the isConnected test (free when the pointer dangles); sent:
\* sendAudioChunk returns true; reconnected: connect() of the inline
\* reconnect returns true.
StreamerSend(t, use, sent, reconnected) ==
    /\ Alive
    /\ t \in DOMAIN threads
    /\ threads[t].pc = "send"
    /\ threads[t].idx <= Len(threads[t].hostages)
    /\ LET id == threads[t].hostages[threads[t].idx]
           h == speakerStates[id].hostage
       IN /\ h = "up" => use
          /\ h = "down" => ~use
          /\ sent => use /\ h = "up"
          /\ reconnected => use /\ ~sent /\ h # "null"
          /\ speakerStates' =
                 IF use /\ ~sent /\ h # "null"
                 THEN [speakerStates EXCEPT
                          ![id].hostage = IF reconnected THEN "up" ELSE "down"]
                 ELSE speakerStates
          /\ lastReal' = IF use /\ ~threads[t].isSilence
                         THEN [lastReal EXCEPT ![id] = threads[t].chunk]
                         ELSE lastReal
          /\ threads' = [threads EXCEPT
                            ![t].idx = @ + 1,
                            ![t].reconnects =
                                IF use /\ ~sent /\ h # "null"
                                THEN @ + 1 ELSE @]
          /\ event' = [op |-> "send", thread |-> t, group |-> threads[t].group,
                       to |-> id, passed |-> use, ok |-> sent,
                       chunk |-> threads[t].chunk,
                       silence |-> threads[t].isSilence,
                       prev |-> lastReal[id],
                       held |-> IF use /\ ~sent /\ h # "null"
                                THEN {"probe", "connect"} ELSE {}]
    /\ UNCHANGED <<groups, workers, procs, ui, nextId, chunkCounter, crashed,
                   env, dropped, raop, arrival, locks, shairport, discovery,
                   pulseCounter>>

\* main.cpp:222-234: the end of the iteration (the silence sleeps)
StreamerSleep(t) ==
    /\ Alive
    /\ t \in DOMAIN threads
    /\ threads[t].pc = "send"
    /\ threads[t].idx > Len(threads[t].hostages)
    /\ threads' = [threads EXCEPT ![t].pc = "head", ![t].chunk = <<>>,
                                  ![t].reconnects = 0]
    /\ event' = [op |-> "sleep", thread |-> t]
    /\ UNCHANGED <<speakerStates, groups, workers, procs, ui, nextId,
                   chunkCounter, crashed, env, lastReal, dropped, raop,
                   arrival, locks, shairport, discovery,
                   pulseCounter>>

\* the hostages a streamer is calling waitForFramesReady or sendAudioChunk
\* on, outside the lock: those of its snapshot while its readiness loop
\* (main.cpp:162-169) or its send loop (main.cpp:197-220) is running
InUseByStreamer ==
    UNION {Range(threads[t].hostages) :
              t \in {u \in DOMAIN threads :
                        \/ threads[u].pc = "gate"
                        \/ /\ threads[u].pc = "send"
                           /\ threads[u].idx <= Len(threads[u].hostages)}}

\* RaopHostage::pulse on the hostage of a row: "up" is connected_ && raop_
PulseHostage(h, alive, reconnected) ==
    IF h # "up" \/ alive THEN h
    ELSE IF reconnected THEN "up" ELSE "down"

\* Tui.cpp:1104-1112 (main.cpp:817-826 without the TUI): the heartbeat of the
\* UI thread pulses every hostage in one lock section.  alive: the rows whose
\* keep-alive succeeds; reconnected: the rows whose connect() succeeds.
Heartbeat(alive, reconnected) ==
    /\ Alive
    /\ ui.pc = "idle"
    /\ LET pulsed == {id \in DOMAIN speakerStates :
                         speakerStates[id].hostage # "null"}
           asked == {id \in pulsed : speakerStates[id].hostage = "up"}
       IN /\ pulsed # {}
          /\ alive \subseteq asked
          /\ reconnected \subseteq asked \ alive
          /\ speakerStates' =
                 [id \in DOMAIN speakerStates |->
                     [speakerStates[id] EXCEPT
                         !.hostage = PulseHostage(@, id \in alive,
                                                  id \in reconnected)]]
          /\ event' = [op |-> "heartbeat", pulsed |-> pulsed,
                       keepalive |-> asked, failed |-> asked \ alive,
                       streaming |-> InUseByStreamer,
                       held |-> (IF asked # {} THEN {"keepalive"} ELSE {})
                                \cup (IF asked \ alive # {}
                                      THEN {"probe", "connect"} ELSE {})]
    /\ UNCHANGED <<groups, workers, threads, procs, ui, nextId, chunkCounter,
                   crashed, env, lastReal, dropped, raop, arrival, locks,
                   shairport, discovery,
                   pulseCounter>>

\* Tui.cpp:238-246, buildSnapshots: the group is shown ONLINE when healthy,
\* DEGRADED otherwise (Tui.cpp:346-347)
Healthy(g) ==
    \A id \in Members(g) :
       id \in DOMAIN speakerStates /\ speakerStates[id].connected

-----------------------------------------------------------------------------
(* Specifications *)

EmptyMap == [x \in {} |-> 0]

\* the program after main() has set up its globals: no speaker, no group
Init ==
    /\ speakerStates = EmptyMap
    /\ groups = EmptyMap
    /\ workers = EmptyMap
    /\ threads = EmptyMap
    /\ procs = EmptyMap
    /\ ui = UiIdle
    /\ nextId = 0
    /\ chunkCounter = 0
    /\ crashed = FALSE
    /\ env = [bytes |-> 0, silence |-> 0]
    /\ lastReal = [id \in SpeakerIds |-> <<>>]
    /\ dropped = {}
    /\ raop = NoHostage
    /\ arrival = NotObserved
    /\ locks = NoTasks
    /\ shairport = NoReceiver
    /\ discovery = NoBrowser
    /\ pulseCounter = 0
    /\ event = NoEvent

\* Under Spec the receivers deliver no PCM and the streamers synthesize no
\* silence (env.bytes = env.silence = 0): a streamer waits at the head of its
\* loop until it is told to leave.  Members, reservations, hostage objects and
\* ports are written by the actions below only.  The speakers keep their
\* address.
Next ==
    \/ \E name \in GroupNames \cup {""} : CreateBegin(name)
    \/ CreateCancel
    \/ \E chosen \in SUBSET SpeakerIds : CreateInsert(chosen)
    \/ \E w \in 1 .. MaxCreates, ok \in SUBSET SpeakerIds : Worker(w, ok)
    \/ \E name \in GroupNames : DeleteBegin(name)
    \/ DeleteJoin
    \/ DeleteErase
    \/ \E snapshot \in Snapshots({"ip1"}) : Discovery(snapshot)
    \/ \E t \in 1 .. MaxCreates : StreamerPop(t)

Spec == Init /\ [][Next]_vars

-----------------------------------------------------------------------------
(* The audio path of one established group *)

\* The state the create worker leaves behind for group "g1" of speaker "A"
\* on port 6000 (Tui.cpp:841-896) when connect() succeeded: receiver 1
\* started, streamer 1 at the head of its loop.  The hostage goes down, and
\* comes back, by failed sends and reconnects.
PausedAudioState(bytes, silence) ==
    /\ groups = [g \in {"g1"} |->
                    [NewGroupInfo(kBaseGroupPort, <<"A">>) EXCEPT
                        !.process = 1, !.streamerThread = 1,
                        !.streamerRunning = TRUE]]
    /\ speakerStates = [id \in {"A"} |->
                           [info |-> "ip1", connected |-> TRUE,
                            reserved |-> TRUE, hostage |-> "up"]]
    /\ workers = EmptyMap
    /\ threads = [t \in {1} |-> NewThread("g1")]
    /\ procs = [p \in {1} |-> NewProc("g1")]
    /\ ui = UiIdle
    /\ nextId = 1
    /\ chunkCounter = 0
    /\ crashed = FALSE
    /\ env = [bytes |-> bytes, silence |-> silence]
    /\ lastReal = [id \in SpeakerIds |-> <<>>]
    /\ dropped = {}
    /\ raop = NoHostage
    /\ event = NoEvent

AudioState(bytes) ==
    /\ PausedAudioState(bytes, MaxSilence)
    /\ arrival = NotObserved
    /\ locks = NoTasks
    /\ shairport = NoReceiver
    /\ discovery = NoBrowser
    /\ pulseCounter = 0

InitAudio == AudioState(AudioChunks * kChunkBytes)

NextAudio ==
    \/ \E size \in IngestSizes : Ingest(1, size)
    \/ StreamerPop(1)
    \/ \E stall \in BOOLEAN : StreamerGate(1, stall)
    \/ StreamerRequeue(1)
    \/ StreamerCount(1)
    \/ \E use, sent, reconnected \in BOOLEAN :
           StreamerSend(1, use, sent, reconnected)
    \/ StreamerSleep(1)

SpecAudio == InitAudio /\ [][NextAudio]_vars

-----------------------------------------------------------------------------
(* The audio path when the speaker keeps up: scenario S1 for every k up to  *)
(* the queue capacity.  The hostage stays connected, the readiness gate     *)
(* passes and every send succeeds; the streamer thread is scheduled fairly. *)

InitLive == AudioState(kMaxQueuedChunks * kChunkBytes)

LiveStreamer ==
    \/ StreamerPop(1)
    \/ StreamerGate(1, FALSE)
    \/ StreamerCount(1)
    \/ StreamerSend(1, TRUE, TRUE, FALSE)
    \/ StreamerSleep(1)

NextLive ==
    \/ \E size \in IngestSizes : Ingest(1, size)
    \/ LiveStreamer

SpecLive == InitLive /\ [][NextLive]_vars /\ WF_vars(LiveStreamer)

-----------------------------------------------------------------------------
(* allocatePortLocked as a function of the ports in use.  event holds the   *)
(* set of ports the rows of the group map use, then the port the scan       *)
(* returned for it; a returned port is taken by the new row, a port is      *)
(* freed when its row is erased.                                            *)

AllPorts == kBaseGroupPort .. (kMaxGroupPort - 1)

\* the ports that rows take and free here; the other ports are either all
\* free or all in use
PortWindow == {kBaseGroupPort, kBaseGroupPort + 1, kBaseGroupPort + 2,
               kBaseGroupPort + 3, kMaxGroupPort - 2, kMaxGroupPort - 1}

InitPorts ==
    /\ speakerStates = EmptyMap
    /\ groups = EmptyMap
    /\ workers = EmptyMap
    /\ threads = EmptyMap
    /\ procs = EmptyMap
    /\ ui = UiIdle
    /\ nextId = 0
    /\ chunkCounter = 0
    /\ crashed = FALSE
    /\ env = [bytes |-> 0, silence |-> 0]
    /\ lastReal = [id \in SpeakerIds |-> <<>>]
    /\ dropped = {}
    /\ raop = NoHostage
    /\ arrival = NotObserved
    /\ locks = NoTasks
    /\ shairport = NoReceiver
    /\ discovery = NoBrowser
    /\ pulseCounter = 0
    /\ \E rest \in {{}, AllPorts \ PortWindow} :
          event = [op |-> "portsInUse", used |-> rest]

PortsUnchanged ==
    UNCHANGED <<speakerStates, groups, workers, threads, procs, ui, nextId,
                chunkCounter, crashed, env, lastReal, dropped, raop, arrival,
                locks, shairport, discovery,
                pulseCounter>>

AllocateCall ==
    /\ event.op = "portsInUse"
    /\ event' = [op |-> "allocated", used |-> event.used,
                 port |-> AllocatePort(event.used)]
    /\ PortsUnchanged

PortTaken ==
    /\ event.op = "allocated"
    /\ event.port \in PortWindow \cup {-1}
    /\ event' = [op |-> "portsInUse",
                 used |-> IF event.port < 0 THEN event.used
                          ELSE event.used \cup {event.port}]
    /\ PortsUnchanged

PortFreed(p) ==
    /\ event.op = "portsInUse"
    /\ p \in event.used
    /\ event' = [op |-> "portsInUse", used |-> event.used \ {p}]
    /\ PortsUnchanged

NextPorts ==
    \/ AllocateCall
    \/ PortTaken
    \/ \E p \in PortWindow : PortFreed(p)

SpecPorts == InitPorts /\ [][NextPorts]_vars

-----------------------------------------------------------------------------
(* Properties of the group lifecycle, checked under Spec *)

\* the groups whose member list holds speaker id
GroupsOf(id) == {g \in DOMAIN groups : id \in Members(g)}

\* C1: each speaker id is in the member list of at most one group, over any
\* interleaving of create flows, their workers, delete flows and discovery.
SpeakerInAtMostOneGroup ==
    \A id \in SpeakerIds : Cardinality(GroupsOf(id)) <= 1

ReservedIds == {id \in DOMAIN speakerStates : speakerStates[id].reserved}

\* C2: whenever the state lock is free, the speakers with reserved = true are
\* exactly the members of the groups of the map, and no id is a member twice.
ReservedEqualsMembers ==
    /\ ReservedIds = UNION {Members(g) : g \in DOMAIN groups}
    /\ \A g1, g2 \in DOMAIN groups :
          g1 # g2 => Members(g1) \cap Members(g2) = {}
    /\ \A g \in DOMAIN groups :
          Cardinality(Members(g)) = Len(groups[g].speakerIds)

\* C9: the ports of the groups of the map are pairwise distinct and each is
\* in [kBaseGroupPort, kMaxGroupPort).
PortsDistinctInRange ==
    /\ \A g \in DOMAIN groups :
          groups[g].port >= kBaseGroupPort /\ groups[g].port < kMaxGroupPort
    /\ \A g1, g2 \in DOMAIN groups :
          g1 # g2 => groups[g1].port # groups[g2].port

\* two groups are in the map, the second inserted while the first was there
TwoGroupsPresent ==
    /\ Cardinality(DOMAIN groups) = 2
    /\ event.op = "createInsert"
    /\ event.used # {}

-----------------------------------------------------------------------------
(* Properties of the audio path, checked under SpecAudio *)

\* the position of a chunk in the stream its process produced, from 1
ChunkIndex(chunk) == (chunk[1].off \div kChunkBytes) + 1

\* the n-th chunk carved from the stream of process p
ChunkAt(p, n) == <<Seg(p, (n - 1) * kChunkBytes, kChunkBytes)>>

\* how many whole chunks process p has produced so far
ProducedChunks(p) == procs[p].bytes \div kChunkBytes

RealSend == event.op = "send" /\ event.passed /\ ~event.silence

\* C3: a group's chunk queue never holds more than kMaxQueuedChunks chunks,
\* the requeue of a stalled chunk at the front included.
QueueWithinCapacity ==
    \A g \in DOMAIN groups : Len(groups[g].chunkQueue) <= kMaxQueuedChunks

\* C4: when ingest appends to a queue that holds kMaxQueuedChunks chunks, the
\* one chunk removed is the oldest of the queue, the kMaxQueuedChunks chunks
\* left are the newest in production order, and no chunk removed by an
\* overflow is passed to sendAudioChunk.
OverflowDropsOldest ==
    /\ event.op = "ingest" =>
          \A i \in DOMAIN event.steps :
             LET st == event.steps[i]
             IN st.lenBefore = kMaxQueuedChunks =>
                   /\ Cardinality(st.removed) = 1
                   /\ \A r \in st.removed : \A c \in st.queued :
                         ChunkIndex(r) <= ChunkIndex(c)
                   /\ Len(st.after) = kMaxQueuedChunks
                   /\ Range(st.after) = st.queued \ st.removed
                   /\ \A j \in 1 .. (Len(st.after) - 1) :
                         ChunkIndex(st.after[j]) < ChunkIndex(st.after[j + 1])
    /\ event.op = "send" /\ event.passed => event.chunk \notin dropped

\* an ingest has just appended to a queue that held kMaxQueuedChunks chunks
OverflowHappened ==
    /\ event.op = "ingest"
    /\ \E i \in DOMAIN event.steps :
          event.steps[i].lenBefore = kMaxQueuedChunks

\* C5: after every ingest, whatever the size delivered, pendingBytes holds
\* fewer than kChunkBytes bytes.
PendingBelowChunk ==
    \A g \in DOMAIN groups : Size(groups[g].pendingBytes) < kChunkBytes

\* an ingest has carved more than one chunk and left a remainder
IngestLeftRemainder ==
    /\ event.op = "ingest"
    /\ event.carved >= 2
    /\ Size(groups[event.group].pendingBytes) > 0

\* C6: every buffer passed to sendAudioChunk, real or silence, is exactly
\* kChunkBytes bytes long.
SentChunkSize ==
    event.op = "send" /\ event.passed => Size(event.chunk) = kChunkBytes

\* a silence chunk has just been passed to sendAudioChunk
SilenceSent == event.op = "send" /\ event.passed /\ event.silence

\* the chunks produced after chunk prev (or from the start) and before chunk
SkippedBetween(prev, chunk) ==
    {ChunkAt(chunk[1].src, n) :
        n \in ((IF prev = <<>> THEN 0 ELSE ChunkIndex(prev)) + 1)
              .. (ChunkIndex(chunk) - 1)}

\* C7 as stated: the real chunks passed to sendAudioChunk form a prefix of
\* the chunks produced (each is the successor of the one sent before it, the
\* first is the first produced), and silence is popped only from an empty
\* queue.
SentIsPrefixOfProduced ==
    /\ RealSend =>
          /\ ChunkIndex(event.chunk) <= ProducedChunks(event.chunk[1].src)
          /\ ChunkIndex(event.chunk) =
                (IF event.prev = <<>> THEN 0 ELSE ChunkIndex(event.prev)) + 1
    /\ event.op = "pop" /\ event.silence => event.queued = 0

\* C7, amended: the real chunks passed to sendAudioChunk are produced chunks
\* in strictly increasing production order (none twice), the only chunks
\* skipped are those an ingest overflow removed, and silence is popped only
\* from an empty queue.
SentInOrderSkippingDropped ==
    /\ RealSend =>
          /\ ChunkIndex(event.chunk) <= ProducedChunks(event.chunk[1].src)
          /\ event.chunk = ChunkAt(event.chunk[1].src, ChunkIndex(event.chunk))
          /\ event.prev # <<>> =>
                ChunkIndex(event.prev) < ChunkIndex(event.chunk)
          /\ SkippedBetween(event.prev, event.chunk) \subseteq dropped
    /\ event.op = "pop" /\ event.silence => event.queued = 0

\* a real chunk goes out although chunks produced before it, and after the
\* one sent last, never went out: an overflow removed them
SentAfterDrop ==
    /\ RealSend
    /\ SkippedBetween(event.prev, event.chunk) # {}
    /\ SkippedBetween(event.prev, event.chunk) \subseteq dropped

-----------------------------------------------------------------------------
(* Delivery when the speaker keeps up, checked under SpecLive *)

\* the number of real chunks speaker id has been sent, given they went out in
\* production order
SentUpTo(id) == IF lastReal[id] = <<>> THEN 0 ELSE ChunkIndex(lastReal[id])

DeliveryInOrder ==
    RealSend =>
       /\ ChunkIndex(event.chunk) = SentUpTo(event.to)
       /\ ChunkIndex(event.chunk) =
             (IF event.prev = <<>> THEN 0 ELSE ChunkIndex(event.prev)) + 1
       /\ ChunkIndex(event.chunk) <= ProducedChunks(event.chunk[1].src)
       /\ groups[event.group].consecutiveSilenceChunks = 0

\* C8: with the one hostage connected and always ready, and no more than
\* kMaxQueuedChunks chunks ingested, every chunk produced is eventually passed
\* to sendAudioChunk, the chunks go out in production order, none beyond what
\* was produced, and consecutiveSilenceChunks is 0 when a real chunk has gone
\* out.
CaughtUpDelivery ==
    /\ []DeliveryInOrder
    /\ \A n \in 1 .. kMaxQueuedChunks :
          (ProducedChunks(1) >= n) ~> (SentUpTo("A") >= n)

\* scenario S1: 4 x kChunkBytes bytes were produced and the fourth chunk has
\* just gone out
FourChunksSent ==
    /\ RealSend
    /\ procs[1].bytes = 4 * kChunkBytes
    /\ event.chunk = ChunkAt(1, 4)
    /\ groups["g1"].consecutiveSilenceChunks = 0

-----------------------------------------------------------------------------
(* Port allocation, checked under SpecPorts *)

\* C10: allocation returns the smallest port of [kBaseGroupPort,
\* kMaxGroupPort) that no group uses, a freed port included, and returns -1
\* only when every port of the range is in use.
SmallestFreePort ==
    event.op = "allocated" =>
       LET free == AllPorts \ event.used
       IN IF free = {} THEN event.port = -1
          ELSE /\ event.port \in free
               /\ \A q \in free : event.port <= q

\* the base port was freed while a higher port stayed in use, and the next
\* allocation hands it out again
FreedPortReused ==
    /\ event.op = "allocated"
    /\ event.port = kBaseGroupPort
    /\ (kBaseGroupPort + 1) \in event.used

-----------------------------------------------------------------------------
(* Hostages and teardown, checked under Spec *)

\* C11: a speaker row that holds a hostage object is a member of exactly one
\* group of the map.
HostageImpliesOneGroup ==
    \A id \in DOMAIN speakerStates :
       speakerStates[id].hostage # "null" => Cardinality(GroupsOf(id)) = 1

\* C12: when delete erases a group row and destroys the members' hostages,
\* the row holds no streamer thread and owns no receiver: both were taken
\* out of it, joined and stopped before.
EraseAfterTeardown ==
    event.op = "deleteErase" /\ event.port >= 0 =>
       event.thread = 0 /\ event.process = 0

-----------------------------------------------------------------------------
(* Speakers that go offline and return while their group plays.  Group "g1" *)
(* of speaker "A" is established; Discovery publishes snapshots in which A  *)
(* and B come and go and change address; the receiver delivers a little     *)
(* PCM; the streamer thread is scheduled fairly.                            *)

InitPresence == AudioState(PresenceChunks * kChunkBytes)

PresenceStreamer ==
    \/ StreamerPop(1)
    \/ \E stall \in BOOLEAN : StreamerGate(1, stall)
    \/ StreamerRequeue(1)
    \/ StreamerCount(1)
    \/ \E use, sent, reconnected \in BOOLEAN :
           StreamerSend(1, use, sent, reconnected)
    \/ StreamerSleep(1)

NextPresence ==
    \/ \E snapshot \in Snapshots(Infos) : Discovery(snapshot)
    \/ \E size \in IngestSizes : Ingest(1, size)
    \/ PresenceStreamer

SpecPresence ==
    InitPresence /\ [][NextPresence]_vars /\ WF_vars(PresenceStreamer)

\* C13: a merge gives every pre-existing id absent from the snapshot
\* connected = false and no hostage and leaves its reserved flag alone, gives
\* every id of the snapshot connected = true and the snapshot's info, and
\* leaves the groups and their member lists alone.
DiscoveryFrame ==
    [][event'.op = "discovery" =>
          /\ DOMAIN speakerStates' =
                DOMAIN speakerStates \cup DOMAIN event'.snapshot
          /\ \A id \in DOMAIN speakerStates \ DOMAIN event'.snapshot :
                /\ ~speakerStates'[id].connected
                /\ speakerStates'[id].hostage = "null"
                /\ speakerStates'[id].reserved = speakerStates[id].reserved
          /\ \A id \in DOMAIN event'.snapshot :
                /\ speakerStates'[id].connected
                /\ speakerStates'[id].info = event'.snapshot[id]
          /\ groups' = groups]_vars

\* a merge has just taken a reserved group member offline, without its
\* hostage, and has given another speaker a new address
MemberWentOffline ==
    /\ event.op = "discovery"
    /\ \E id \in DOMAIN speakerStates \ DOMAIN event.snapshot :
          /\ GroupsOf(id) # {}
          /\ speakerStates[id].reserved
          /\ ~speakerStates[id].connected
          /\ speakerStates[id].hostage = "null"
    /\ \E id \in DOMAIN event.snapshot : speakerStates[id].info = "ip2"

\* C14: merging the snapshot that was just merged once more leaves
\* speakerStates as it is: same rows, same connected, reserved and hostage.
MergeIdempotent ==
    event.op = "discovery" =>
       Merge(speakerStates, event.snapshot) = speakerStates

\* a snapshot was merged that some known speaker was absent from and another
\* was in
MergedMixedSnapshot ==
    /\ event.op = "discovery"
    /\ DOMAIN event.snapshot # {}
    /\ DOMAIN speakerStates \ DOMAIN event.snapshot # {}

\* C15: a member that went offline and is back in a snapshot gets a hostage
\* again on the next streamer iteration: at the end of an iteration whose
\* head section ran with the member connected, the member that is still
\* connected holds a hostage object.
ReturnedMemberHasHostage ==
    event.op = "sleep" =>
       \A id \in threads[event.thread].seen :
          speakerStates[id].connected => speakerStates[id].hostage # "null"

-----------------------------------------------------------------------------
(* RaopHostage, RaopHostage.cpp.  A capability string is the sequence of    *)
(* its characters; raop_ is the protocol client with the settings it was    *)
(* created with, or NoClient for nullptr.                                   *)

\* the et strings speakers publish
EtStrings == {<<>>, <<"0">>, <<"1">>, <<"3">>, <<"4">>,
              <<"0", ",", "1">>, <<"0", ",", "4">>, <<"0", ",", " ", "1">>,
              <<"0", ",", "3", ",", "4">>}

NoClient == [present |-> FALSE]

\* RaopHostage.cpp:249-258
sanitizeEt(raw) == SelectSeq(raw, LAMBDA ch : ch \notin {" ", "\t", "\n"})

\* RaopHostage.cpp:38-47 and the member initializers of RaopHostage.h:34-42
NewRaopHostage(etCapabilities, preferAuth) ==
    [etCapabilities |-> sanitizeEt(etCapabilities), preferAuth |-> preferAuth,
     lastAuthUsed |-> FALSE, raop |-> NoClient, connected |-> FALSE]

\* RaopHostage.cpp:21-35
etSupportsToken(et, token) == \E i \in DOMAIN et : et[i] = token

etSupportsClear(et) == etSupportsToken(et, "0")

etSupportsRSA(et) ==
    etSupportsToken(et, "1") \/ etSupportsToken(et, "3")
        \/ etSupportsToken(et, "4")

etSupportsFairPlay(et) == etSupportsToken(et, "4")

\* a plausible slip: auth is enabled whenever it is asked for
EnableAuthUnchecked(authFlag, supportFairPlay) == authFlag

\* RaopHostage.cpp:148
EnableAuth(authFlag, supportFairPlay) == authFlag /\ supportFairPlay

\* RaopHostage.cpp:139-157: what attemptConnect hands to raopcl_create; et is
\* the string behind etPtr (<<>>: nullptr)
ClientSettings(h, authFlag, etOverride) ==
    LET sanitized == sanitizeEt(etOverride)
        etValue == IF sanitized = <<>> THEN h.etCapabilities ELSE sanitized
        supportClear == etSupportsClear(etValue)
        supportRSA == etSupportsRSA(etValue)
        supportFairPlay == etSupportsFairPlay(etValue)
        enableAuth == EnableAuth(authFlag, supportFairPlay)
        useRSA == (~supportClear /\ supportRSA) \/ enableAuth
    IN [present |-> TRUE,
        crypto |-> IF useRSA THEN "RSA" ELSE "CLEAR",
        auth |-> enableAuth,
        et |-> IF enableAuth /\ ~etSupportsToken(etValue, "4")
               THEN (IF etValue # <<>> THEN etValue \o <<",">> ELSE etValue)
                       \o <<"4">>
               ELSE etValue]

\* a plausible slip: the client is destroyed but the pointer is kept
disconnectKeepingClient(h) ==
    [obj |-> [h EXCEPT !.connected = FALSE],
     destroyed |-> IF h.raop.present THEN 1 ELSE 0,
     disconnected |-> IF h.raop.present /\ h.connected THEN 1 ELSE 0]

\* RaopHostage.cpp:80-89.  destroyed and disconnected count the calls of
\* raopcl_destroy and raopcl_disconnect.
disconnect(h) ==
    [obj |-> [h EXCEPT !.raop = NoClient, !.connected = FALSE],
     destroyed |-> IF h.raop.present THEN 1 ELSE 0,
     disconnected |-> IF h.raop.present /\ h.connected THEN 1 ELSE 0]

\* what the network does to one pass of the loop of connect(): the probe
\* fails, raopcl_create fails, raopcl_connect fails, or all succeed
Outcomes == {"unreachable", "nocreate", "refused", "ok"}

\* RaopHostage.cpp:131-209.  attempt describes the call for the history.
attemptConnect(h, authFlag, etOverride, outcome) ==
    LET d == disconnect(h)
        settings == ClientSettings(d.obj, authFlag, etOverride)
        attempt == [authFlag |-> authFlag, crypto |-> settings.crypto,
                    auth |-> settings.auth, et |-> settings.et,
                    ok |-> outcome = "ok"]
    IN IF outcome = "nocreate"
       THEN [obj |-> d.obj, ok |-> FALSE, destroyed |-> d.destroyed,
             attempt |-> attempt]
       ELSE IF outcome = "refused"
       THEN [obj |-> d.obj, ok |-> FALSE, destroyed |-> d.destroyed + 1,
             attempt |-> attempt]
       ELSE [obj |-> [d.obj EXCEPT !.raop = settings, !.connected = TRUE,
                                   !.lastAuthUsed = authFlag],
             ok |-> TRUE, destroyed |-> d.destroyed, attempt |-> attempt]

\* RaopHostage.cpp:56-77: the loop of connect() from pass i on.  outcomes[i]
\* is what the network does to pass i; probes counts ensureReachable calls.
RECURSIVE ConnectLoop(_, _, _, _, _, _)
ConnectLoop(h, i, outcomes, attempts, probes, destroyed) ==
    LET attemptOrder == <<h.preferAuth, ~h.preferAuth>>
    IN IF i > 2 \/ (i = 2 /\ attemptOrder[2] = attemptOrder[1])
       THEN [obj |-> h, result |-> FALSE, attempts |-> attempts,
             probes |-> probes, destroyed |-> destroyed]
       ELSE IF outcomes[i] = "unreachable"
       THEN [obj |-> h, result |-> FALSE, attempts |-> attempts,
             probes |-> probes + 1, destroyed |-> destroyed]
       ELSE LET a == attemptConnect(h, attemptOrder[i], h.etCapabilities,
                                    outcomes[i])
            IN IF a.ok
               THEN [obj |-> a.obj, result |-> TRUE,
                     attempts |-> Append(attempts, a.attempt),
                     probes |-> probes + 1,
                     destroyed |-> destroyed + a.destroyed]
               ELSE ConnectLoop(a.obj, i + 1, outcomes,
                                Append(attempts, a.attempt), probes + 1,
                                destroyed + a.destroyed)

\* RaopHostage.cpp:53-78
connect(h, outcomes) ==
    IF h.connected
    THEN [obj |-> h, result |-> TRUE, attempts |-> <<>>, probes |-> 0,
          destroyed |-> 0]
    ELSE ConnectLoop(h, 1, outcomes, <<>>, 0, 0)

\* a plausible slip: the keep-alive goes out whatever the state
PulseAlways(h) == TRUE

\* RaopHostage.cpp:92: if (connected_ && raop_)
PulseActs(h) == h.connected /\ h.raop.present

\* RaopHostage.cpp:91-98.  alive: raopcl_keepalive returns true.  keepalives,
\* disconnects and connects count the calls made.
pulse(h, alive, outcomes) ==
    IF ~PulseActs(h)
    THEN [obj |-> h, keepalives |-> 0, disconnects |-> 0, connects |-> 0,
          attempts |-> <<>>]
    ELSE IF alive
    THEN [obj |-> h, keepalives |-> 1, disconnects |-> 0, connects |-> 0,
          attempts |-> <<>>]
    ELSE LET c == connect(disconnect(h).obj, outcomes)
         IN [obj |-> c.obj, keepalives |-> 1, disconnects |-> 1,
             connects |-> 1, attempts |-> c.attempts]

(* One hostage object and the calls made on it *)

InitHostage ==
    /\ speakerStates = EmptyMap
    /\ groups = EmptyMap
    /\ workers = EmptyMap
    /\ threads = EmptyMap
    /\ procs = EmptyMap
    /\ ui = UiIdle
    /\ nextId = 0
    /\ chunkCounter = 0
    /\ crashed = FALSE
    /\ env = [bytes |-> 0, silence |-> 0]
    /\ lastReal = [id \in SpeakerIds |-> <<>>]
    /\ dropped = {}
    /\ \E et \in EtStrings, preferAuth \in BOOLEAN :
          raop = NewRaopHostage(et, preferAuth)
    /\ arrival = NotObserved
    /\ locks = NoTasks
    /\ shairport = NoReceiver
    /\ discovery = NoBrowser
    /\ pulseCounter = 0
    /\ event = NoEvent

HostageUnchanged ==
    UNCHANGED <<speakerStates, groups, workers, threads, procs, ui, nextId,
                chunkCounter, crashed, env, lastReal, dropped, arrival, locks,
                shairport, discovery,
                pulseCounter>>

HostageConnect(outcomes) ==
    /\ LET c == connect(raop, outcomes)
       IN /\ raop' = c.obj
          /\ event' = [op |-> "connect", before |-> raop,
                       result |-> c.result, attempts |-> c.attempts,
                       probes |-> c.probes, outcomes |-> outcomes]
    /\ HostageUnchanged

\* previous: the clients the directly preceding call destroyed if that call
\* was disconnect() too, else -1
HostageDisconnect ==
    /\ LET d == disconnect(raop)
       IN /\ raop' = d.obj
          /\ event' = [op |-> "disconnect", before |-> raop,
                       destroyed |-> d.destroyed,
                       disconnected |-> d.disconnected,
                       previous |-> IF event.op = "disconnect"
                                    THEN event.destroyed ELSE -1]
    /\ HostageUnchanged

HostagePulse(alive, outcomes) ==
    /\ LET r == pulse(raop, alive, outcomes)
       IN /\ raop' = r.obj
          /\ event' = [op |-> "pulse", before |-> raop, alive |-> alive,
                       keepalives |-> r.keepalives,
                       disconnects |-> r.disconnects,
                       connects |-> r.connects, attempts |-> r.attempts]
    /\ HostageUnchanged

NextHostage ==
    \/ \E outcomes \in [1 .. 2 -> Outcomes] : HostageConnect(outcomes)
    \/ HostageDisconnect
    \/ \E alive \in BOOLEAN, outcomes \in [1 .. 2 -> Outcomes] :
          HostagePulse(alive, outcomes)

SpecHostage == InitHostage /\ [][NextHostage]_vars

(* Claims about SpecHostage *)

\* C16: every attempt of connect() computes enable_auth = attempt_auth and
\* support_fp, use_rsa = (not support_clear and support_rsa) or enable_auth,
\* crypto RSA iff use_rsa, and sends the et string with ",4" appended iff
\* enable_auth holds and 4 is not in it; et = "4" with auth ON gives RSA,
\* enable_auth and et "4".
AttemptSettingsFollowEt ==
    event.op = "connect" =>
       \A i \in DOMAIN event.attempts :
          LET a == event.attempts[i]
              et == event.before.etCapabilities
              support_clear == "0" \in Range(et)
              support_rsa == Range(et) \cap {"1", "3", "4"} # {}
              support_fp == "4" \in Range(et)
              enable_auth == a.authFlag /\ support_fp
              use_rsa == (~support_clear /\ support_rsa) \/ enable_auth
          IN /\ a.auth = enable_auth
             /\ a.crypto = (IF use_rsa THEN "RSA" ELSE "CLEAR")
             /\ a.et = (IF enable_auth /\ "4" \notin Range(et)
                        THEN et \o <<",", "4">> ELSE et)
             /\ (et = <<"4">> /\ a.authFlag =>
                    a.crypto = "RSA" /\ a.auth /\ a.et = <<"4">>)
             /\ (a.ok => raop.raop = [present |-> TRUE, crypto |-> a.crypto,
                                      auth |-> a.auth, et |-> a.et])

FairPlayAttemptMade ==
    /\ event.op = "connect"
    /\ event.before.etCapabilities = <<"4">>
    /\ \E i \in DOMAIN event.attempts :
          event.attempts[i].authFlag /\ event.attempts[i].crypto = "RSA"
             /\ event.attempts[i].ok

\* C17: connect() on a disconnected hostage makes at most two protocol
\* attempts, with auth = prefer_auth then not prefer_auth; it returns true
\* at the first success, connected with last_auth_used that attempt's flag,
\* and returns false only after all attempts failed, disconnected with no
\* client.
ConnectTriesBothModes ==
    event.op = "connect" /\ ~event.before.connected =>
       LET attemptOrder == <<event.before.preferAuth,
                             ~event.before.preferAuth>>
           n == Len(event.attempts)
       IN /\ n <= 2
          /\ \A i \in 1 .. n : event.attempts[i].authFlag = attemptOrder[i]
          /\ \A i \in 1 .. n : event.attempts[i].ok => i = n
          /\ event.result =>
                /\ n >= 1 /\ event.attempts[n].ok
                /\ raop.connected /\ raop.raop.present
                /\ raop.lastAuthUsed = event.attempts[n].authFlag
          /\ ~event.result =>
                /\ n = 2
                /\ \A i \in 1 .. n : ~event.attempts[i].ok
                /\ ~raop.connected /\ ~raop.raop.present

\* C18: disconnect() leaves the hostage disconnected with no client, and a
\* second call changes nothing and tears nothing down.
DisconnectIdempotent ==
    event.op = "disconnect" =>
       /\ ~raop.connected /\ ~raop.raop.present
       /\ disconnect(raop) = [obj |-> raop, destroyed |-> 0,
                              disconnected |-> 0]
       /\ event.previous # -1 =>
             event.before = raop /\ event.destroyed = 0
                /\ event.disconnected = 0

DisconnectedTwice ==
    event.op = "disconnect" /\ event.previous = 1

\* C19: pulse() on a connected hostage issues one keep-alive; if it fails the
\* hostage is disconnected and connect() is called exactly once; if it
\* succeeds the state is unchanged; on a disconnected hostage there is no
\* keep-alive and no connect attempt.
PulseReconnectsOnce ==
    event.op = "pulse" =>
       /\ event.before.connected =>
             /\ event.keepalives = 1
             /\ event.alive =>
                   raop = event.before /\ event.disconnects = 0
                      /\ event.connects = 0
             /\ ~event.alive =>
                   /\ event.disconnects = 1 /\ event.connects = 1
                   /\ Len(event.attempts) <= 2
                   /\ raop.connected =
                         (\E i \in DOMAIN event.attempts :
                             event.attempts[i].ok)
       /\ ~event.before.connected =>
             /\ event.keepalives = 0 /\ event.disconnects = 0
             /\ event.connects = 0 /\ event.attempts = <<>>
             /\ raop = event.before

PulseReconnected ==
    /\ event.op = "pulse" /\ event.before.connected /\ ~event.alive
    /\ event.connects = 1 /\ raop.connected

(* Claim about the readiness gate, under SpecAudio *)

\* C20: when a member hostage fails wait_for_frames_ready, the streamer makes
\* exactly one reconnect attempt (disconnect then connect) for it on the
\* first stall, and none on the stalls that follow it.
FirstStallReconnectsOnce ==
    event.op = "gate" /\ event.stall =>
       threads[event.thread].reconnects = (IF event.first THEN 1 ELSE 0)

-----------------------------------------------------------------------------
(* The audio path across a pause of the source: the group of SpecAudio with *)
(* room for PauseSilence silence chunks, and arrival observed.              *)

InitPause ==
    /\ PausedAudioState(PauseChunks * kChunkBytes, PauseSilence)
    /\ arrival = Observed
    /\ locks = NoTasks
    /\ shairport = NoReceiver
    /\ discovery = NoBrowser
    /\ pulseCounter = 0

NextPause ==
    \/ \E size \in IngestSizes : Ingest(1, size)
    \/ StreamerPop(1)
    \/ \E stall \in BOOLEAN : StreamerGate(1, stall)
    \/ StreamerRequeue(1)
    \/ StreamerCount(1)
    \/ \E use, sent, reconnected \in BOOLEAN :
           StreamerSend(1, use, sent, reconnected)
    \/ StreamerSleep(1)

SpecPause == InitPause /\ [][NextPause]_vars

\* C21 as stated: after PCM arrives following silence, at most one more
\* silence chunk is passed on before a real chunk is.
OneSilenceAfterArrival == arrival.any <= 1

\* C21: after an arrival following silence that queues a chunk, at most one
\* more silence chunk is passed on before a real chunk is.
OneSilenceAfterQueuedChunk == arrival.queued <= 1

SilenceAfterQueuedChunk == arrival.queued = 1

-----------------------------------------------------------------------------
(* The tasks that share stateMutex around one established group: the reader *)
(* thread, the streamer, the heartbeat and the delete flow of the UI thread *)

InitTasks == AudioState(kChunkBytes)

NextTasks ==
    \/ \E size \in IngestSizes : Ingest(1, size)
    \/ StreamerPop(1)
    \/ \E stall \in BOOLEAN : StreamerGate(1, stall)
    \/ StreamerRequeue(1)
    \/ StreamerCount(1)
    \/ \E use, sent, reconnected \in BOOLEAN :
           StreamerSend(1, use, sent, reconnected)
    \/ StreamerSleep(1)
    \/ \E alive, reconnected \in SUBSET SpeakerIds :
           Heartbeat(alive, reconnected)
    \/ DeleteBegin("g1")
    \/ DeleteJoin
    \/ DeleteErase

SpecTasks == InitTasks /\ [][NextTasks]_vars

\* C22: no task holds stateMutex while it makes a blocking call: a RAOP
\* connect, keep-alive or send, the reachability probe, a join, the stop of
\* a receiver or an explicit sleep.
NoBlockingCallUnderLock ==
    "held" \in DOMAIN event => event.held = {}

\* C23: the heartbeat's pulse() never runs on a hostage while the streamer
\* is in wait_for_frames_ready or send_audio_chunk on it.
PulseBetweenIterations ==
    event.op = "heartbeat" => event.keepalive \cap event.streaming = {}

-----------------------------------------------------------------------------
(* The lock sections of the tasks, statement by statement.  A program is    *)
(* the sequence of steps of one pass of a task: Lock is the construction of *)
(* a lock_guard on stateMutex, Unlock the end of its scope, Touch a read or *)
(* write of the named maps, Call a call that does not touch them.           *)

Lock == [op |-> "lock", maps |-> {}, what |-> ""]

Unlock == [op |-> "unlock", maps |-> {}, what |-> ""]

Touch(maps) == [op |-> "touch", maps |-> maps, what |-> ""]

Call(what) == [op |-> "call", maps |-> {}, what |-> what]

Tasks == {"discovery", "reader", "streamer", "worker", "ui"}

\* main.cpp:863-885: the snapshot callback
DiscoveryPrograms ==
    {<<Lock, Touch({"speakerStates"}), Unlock>>}

\* Tui.cpp:869-887: the PCM callback, after the read of Shairport.cpp:297
ReaderPrograms ==
    {<<Call("read"), Lock, Touch({"groups"}), Unlock>>}

\* a plausible slip: the silence tracking is written without the lock
StreamerProgramsUnlockedCount ==
    {<<Lock, Touch({"groups", "speakerStates"}), Unlock,
       Call("waitForFramesReady"),
       Touch({"groups"}),
       Call("sendAudioChunk"), Call("sleep")>>}

\* main.cpp:113-236, one iteration: the head section alone when the loop is
\* left (120-124), else the head section (120-154), the
\* readiness loop (162-169), then either the requeue block (172-180) or the
\* silence tracking (185-195), the send (198) with or without the inline
\* reconnect (202-214) and, for silence, the sleep block (223-232)
StreamerPrograms ==
    {<<Lock, Touch({"groups"}), Unlock>>,
     <<Lock, Touch({"groups", "speakerStates"}), Unlock,
       Call("waitForFramesReady"),
       Lock, Touch({"groups"}), Call("sleep"), Unlock>>,
     <<Lock, Touch({"groups", "speakerStates"}), Unlock,
       Call("waitForFramesReady"),
       Lock, Touch({"groups"}), Unlock,
       Call("sendAudioChunk")>>,
     <<Lock, Touch({"groups", "speakerStates"}), Unlock,
       Call("waitForFramesReady"),
       Lock, Touch({"groups"}), Unlock,
       Call("sendAudioChunk"),
       Lock, Touch({"speakerStates"}), Call("connect"), Unlock,
       Lock, Touch({"groups"}), Call("sleep"), Unlock>>}

\* Tui.cpp:841-896: the detached create worker
WorkerPrograms ==
    {<<Lock, Touch({"groups"}), Unlock>>,
     <<Lock, Touch({"groups", "speakerStates"}), Call("connect"),
       Call("start"), Touch({"groups", "speakerStates"}), Unlock>>}

\* The UI thread, Tui::Run: buildSnapshots (Tui.cpp:230-265), the heartbeat
\* (1092-1112), createGroupFlow up to the launch of the worker (739-836)
\* and deleteGroupFlow (919-978)
UiPrograms ==
    {<<Lock, Touch({"groups", "speakerStates"}), Unlock>>,
     <<Call("sleep"), Lock, Touch({"groups"}), Unlock,
       Lock, Touch({"speakerStates"}), Call("keepalive"), Unlock>>,
     <<Lock, Touch({"groups", "speakerStates"}), Unlock,
       Call("prompt"),
       Lock, Touch({"groups"}), Unlock>>,
     <<Lock, Touch({"groups"}), Unlock,
       Lock, Touch({"groups"}), Unlock,
       Call("join"), Call("stop"),
       Lock, Touch({"groups", "speakerStates"}), Unlock>>}

Programs(task) ==
    CASE task = "discovery" -> DiscoveryPrograms
      [] task = "reader" -> ReaderPrograms
      [] task = "streamer" -> StreamerPrograms
      [] task = "worker" -> WorkerPrograms
      [] task = "ui" -> UiPrograms

\* every task outside its programs, the mutex free
InitLocks ==
    /\ speakerStates = EmptyMap
    /\ groups = EmptyMap
    /\ workers = EmptyMap
    /\ threads = EmptyMap
    /\ procs = EmptyMap
    /\ ui = UiIdle
    /\ nextId = 0
    /\ chunkCounter = 0
    /\ crashed = FALSE
    /\ env = [bytes |-> 0, silence |-> 0]
    /\ lastReal = [id \in SpeakerIds |-> <<>>]
    /\ dropped = {}
    /\ raop = NoHostage
    /\ arrival = NotObserved
    /\ locks = [owner |-> "none",
                at |-> [task \in Tasks |-> [program |-> <<>>, next |-> 1]]]
    /\ shairport = NoReceiver
    /\ discovery = NoBrowser
    /\ pulseCounter = 0
    /\ event = NoEvent

LocksUnchanged ==
    UNCHANGED <<speakerStates, groups, workers, threads, procs, ui, nextId,
                chunkCounter, crashed, env, lastReal, dropped, raop, arrival,
                shairport, discovery,
                pulseCounter>>

\* a task enters one of its programs
TaskBegin(task, program) ==
    /\ locks.at[task].program = <<>>
    /\ program \in Programs(task)
    /\ locks' = [locks EXCEPT !.at[task] = [program |-> program, next |-> 1]]
    /\ event' = [op |-> "begin", task |-> task]
    /\ LocksUnchanged

\* a task executes its next statement; std::mutex::lock blocks while another
\* task owns the mutex
TaskStep(task) ==
    /\ locks.at[task].program # <<>>
    /\ LET program == locks.at[task].program
           next == locks.at[task].next
           step == program[next]
           after == IF next = Len(program)
                    THEN [program |-> <<>>, next |-> 1]
                    ELSE [program |-> program, next |-> next + 1]
       IN /\ step.op = "lock" => locks.owner = "none"
          /\ locks' = [owner |-> IF step.op = "lock" THEN task
                                 ELSE IF step.op = "unlock" THEN "none"
                                 ELSE locks.owner,
                       at |-> [locks.at EXCEPT ![task] = after]]
          /\ event' = [op |-> step.op, task |-> task, maps |-> step.maps,
                       what |-> step.what, owner |-> locks.owner,
                       others |-> {t \in Tasks \ {task} :
                                      locks.at[t].program # <<>>}]
    /\ LocksUnchanged

NextLocks ==
    \/ \E task \in Tasks : \E program \in Programs(task) :
          TaskBegin(task, program)
    \/ \E task \in Tasks : TaskStep(task)

SpecLocks == InitLocks /\ [][NextLocks]_vars

\* C24: every read and every write of the group map or the speaker registry
\* is made by a task that holds stateMutex.
MapsTouchedUnderLock ==
    event.op = "touch" => event.owner = event.task

StreamerTouchesWhileOthersRun ==
    /\ event.op = "touch" /\ event.task = "streamer"
    /\ {"discovery", "reader", "worker", "ui"} \subseteq event.others

(* Claims about the create flow, under Spec *)

FailedConnectShowsDegraded ==
    event.op = "worker" /\ ~event.hadThread =>
       LET g == event.name
       IN /\ g \in DOMAIN groups
          /\ groups[g].process \in DOMAIN procs
          /\ procs[groups[g].process].running
          /\ groups[g].streamerRunning
          /\ groups[g].streamerThread \in DOMAIN threads
          /\ \A id \in Members(g) : speakerStates[id].reserved
          /\ (\E id \in Members(g) : speakerStates[id].hostage # "up")
                => ~Healthy(g)

-----------------------------------------------------------------------------
(* Shairport, Shairport.cpp: the object, its supervisor thread (run) and    *)
(* the child process.  run is the statement the supervisor is at, "none"    *)
(* before start() and "done" after run() has returned; stop is the place of *)
(* the caller of stop().  ns and link are what ip(8) has created; pid is 1  *)
(* for the pid of the child.                                                *)

\* Shairport.cpp:48-54
NewShairport ==
    [running |-> FALSE, pid |-> -1, joinable |-> FALSE, run |-> "none",
     ns |-> FALSE, link |-> FALSE, child |-> "none", stop |-> "idle"]

ServicesUnchanged ==
    UNCHANGED <<speakerStates, groups, workers, threads, procs, ui, nextId,
                chunkCounter, crashed, env, lastReal, dropped, raop, arrival,
                locks, pulseCounter>>

\* Shairport.cpp:60-64
ShairportStart ==
    /\ shairport.stop = "idle"
    /\ ~shairport.joinable
    /\ ~shairport.running
    /\ shairport' = [shairport EXCEPT !.running = TRUE, !.joinable = TRUE,
                                      !.run = "netns"]
    /\ event' = [op |-> "shairportStart"]
    /\ UNCHANGED discovery
    /\ ServicesUnchanged

\* Shairport.cpp:137-142, cleanupNs: ip netns delete, ip link delete
cleanupNs(s) == [s EXCEPT !.ns = FALSE, !.link = FALSE]

\* Shairport.cpp:130-170: the setup steps of run(); ok is whether the command
\* or call of the step succeeds
ShairportSetup(ok) ==
    /\ shairport.run \in {"netns", "link", "setns", "pipe", "fork"}
    /\ shairport' =
          CASE shairport.run = "netns" ->
                  IF ok THEN [shairport EXCEPT !.ns = TRUE, !.run = "link"]
                  ELSE [shairport EXCEPT !.run = "done"]
            [] shairport.run = "link" ->
                  IF ok THEN [shairport EXCEPT !.link = TRUE, !.run = "setns"]
                  ELSE [cleanupNs(shairport) EXCEPT !.run = "done"]
            [] shairport.run = "setns" ->
                  IF ok THEN [shairport EXCEPT !.run = "pipe"]
                  ELSE [cleanupNs(shairport) EXCEPT !.run = "done"]
            [] shairport.run = "pipe" ->
                  IF ok THEN [shairport EXCEPT !.run = "fork"]
                  ELSE [cleanupNs(shairport) EXCEPT !.run = "done"]
            [] shairport.run = "fork" ->
                  IF ok THEN [shairport EXCEPT !.pid = 1,
                                               !.child = "running",
                                               !.run = "read"]
                  ELSE [shairport EXCEPT !.pid = -1, !.run = "done"]
    /\ event' = [op |-> "shairportSetup", step |-> shairport.run, ok |-> ok,
                 hadNs |-> shairport.ns]
    /\ UNCHANGED discovery
    /\ ServicesUnchanged

\* Shairport.cpp:297-309: one pass of the read loop.  The loop is left when
\* running_ is false or fread returns 0, which it does once the child has
\* closed the pipe; then fclose and cleanupNs (311-314).
ShairportRead ==
    /\ shairport.run = "read"
    /\ IF ~shairport.running \/ shairport.child # "running"
       THEN /\ shairport' = [cleanupNs(shairport) EXCEPT !.run = "done"]
            /\ event' = [op |-> "shairportReadEnd", hadNs |-> shairport.ns]
       ELSE /\ shairport' = shairport
            /\ event' = [op |-> "shairportRead"]
    /\ UNCHANGED discovery
    /\ ServicesUnchanged

\* the child exits by itself (a setup step of the child fails, or
\* shairport-sync ends); nobody has waited for it yet
ChildExits ==
    /\ shairport.child = "running"
    /\ shairport' = [shairport EXCEPT !.child = "exited"]
    /\ event' = [op |-> "childExit"]
    /\ UNCHANGED discovery
    /\ ServicesUnchanged

\* Shairport.cpp:66-72: running_ = false, and the child known by pid_ is
\* sent SIGTERM and reaped
ShairportStopBegin ==
    /\ shairport # NoReceiver
    /\ shairport.stop = "idle"
    /\ shairport' = IF shairport.pid > 0
                    THEN [shairport EXCEPT !.running = FALSE, !.pid = -1,
                                           !.child = "reaped",
                                           !.stop = "join"]
                    ELSE [shairport EXCEPT !.running = FALSE,
                                           !.stop = "join"]
    /\ event' = [op |-> "shairportStopBegin", killed |-> shairport.pid > 0]
    /\ UNCHANGED discovery
    /\ ServicesUnchanged

\* Shairport.cpp:73-76: the join, after which stop() returns
ShairportStopJoin ==
    /\ shairport.stop = "join"
    /\ shairport.joinable => shairport.run = "done"
    /\ shairport' = [shairport EXCEPT !.joinable = FALSE, !.stop = "idle",
                                      !.run = "none"]
    /\ event' = [op |-> "shairportStopped", joined |-> shairport.joinable]
    /\ UNCHANGED discovery
    /\ ServicesUnchanged

-----------------------------------------------------------------------------
(* Discovery, Discovery.cpp (the Avahi build): the object and its browser   *)
(* thread.  run is the place of the thread: "none" before start(), "init",  *)
(* "loop", and "done" after run() has returned.  stopped is history: stop() *)
(* has returned and start() has not been called since.                      *)

\* Discovery.cpp:25-34
NewDiscovery ==
    [running |-> FALSE, joinable |-> FALSE, run |-> "none", stop |-> "idle",
     stopped |-> FALSE]

\* Discovery.cpp:41-48
DiscoveryStart ==
    /\ discovery.stop = "idle"
    /\ ~discovery.joinable
    /\ ~discovery.running
    /\ discovery' = [discovery EXCEPT !.running = TRUE, !.joinable = TRUE,
                                      !.run = "init", !.stopped = FALSE]
    /\ event' = [op |-> "discoveryStart"]
    /\ UNCHANGED shairport
    /\ ServicesUnchanged

\* Discovery.cpp:466-500: the poll, the client and the browser are created;
\* a failure sets running_ = false and returns
DiscoveryInit(ok) ==
    /\ discovery.run = "init"
    /\ discovery' = IF ok THEN [discovery EXCEPT !.run = "loop"]
                    ELSE [discovery EXCEPT !.running = FALSE, !.run = "done"]
    /\ event' = [op |-> "discoveryInit", ok |-> ok]
    /\ UNCHANGED shairport
    /\ ServicesUnchanged

\* what avahi_simple_poll_iterate does in one pass: nothing before the
\* timeout, a browse event that ends in notifyListeners, a client or browser
\* failure reported to a callback, a hard disconnect, or another error
PollResults == {"timeout", "snapshot", "failure", "disconnected", "error"}

\* Discovery.cpp:374-381, 418-424, 504-512: the results after which the
\* loop is left
LoopEnding == {"failure", "disconnected", "error"}

\* a plausible slip: the loop is left on a disconnect with running_ kept
KeepsRunningAlways(ret) == TRUE

\* Discovery.cpp:377, 422, 506, 510: running_ = false on a failure, a
\* disconnect or an error
KeepsRunning(ret) == ret \notin LoopEnding

\* Discovery.cpp:502-515: one pass of while (running_), and cleanupAvahi
\* after the loop
DiscoveryIterate(ret) ==
    /\ discovery.run = "loop"
    /\ IF ~discovery.running
       THEN /\ ret = "timeout"
            /\ discovery' = [discovery EXCEPT !.run = "done"]
            /\ event' = [op |-> "discoveryLoopEnd"]
       ELSE /\ discovery' = IF ret \in LoopEnding
                            THEN [discovery EXCEPT
                                     !.running = KeepsRunning(ret),
                                     !.run = "done"]
                            ELSE discovery
            /\ event' = [op |-> "discoveryPoll", ret |-> ret,
                         callback |-> ret = "snapshot",
                         afterStop |-> discovery.stopped,
                         stopping |-> discovery.stop # "idle"]
    /\ UNCHANGED shairport
    /\ ServicesUnchanged

\* Discovery.cpp:50-56: running_ = false and avahi_simple_poll_quit
DiscoveryStopBegin ==
    /\ discovery # NoBrowser
    /\ discovery.stop = "idle"
    /\ discovery' = [discovery EXCEPT !.running = FALSE, !.stop = "join"]
    /\ event' = [op |-> "discoveryStopBegin"]
    /\ UNCHANGED shairport
    /\ ServicesUnchanged

\* Discovery.cpp:57-60: the join, after which stop() returns
DiscoveryStopJoin ==
    /\ discovery.stop = "join"
    /\ discovery.joinable => discovery.run = "done"
    /\ discovery' = [discovery EXCEPT !.joinable = FALSE, !.stop = "idle",
                                      !.run = "none", !.stopped = TRUE]
    /\ event' = [op |-> "discoveryStopped", joined |-> discovery.joinable]
    /\ UNCHANGED shairport
    /\ ServicesUnchanged

(* The two services as main() and a group own them *)

InitServices ==
    /\ speakerStates = EmptyMap
    /\ groups = EmptyMap
    /\ workers = EmptyMap
    /\ threads = EmptyMap
    /\ procs = EmptyMap
    /\ ui = UiIdle
    /\ nextId = 0
    /\ chunkCounter = 0
    /\ crashed = FALSE
    /\ env = [bytes |-> 0, silence |-> 0]
    /\ lastReal = [id \in SpeakerIds |-> <<>>]
    /\ dropped = {}
    /\ raop = NoHostage
    /\ arrival = NotObserved
    /\ locks = NoTasks
    /\ shairport = NewShairport
    /\ discovery = NewDiscovery
    /\ pulseCounter = 0
    /\ event = NoEvent

NextServices ==
    \/ ShairportStart
    \/ \E ok \in BOOLEAN : ShairportSetup(ok)
    \/ ShairportRead
    \/ ChildExits
    \/ ShairportStopBegin
    \/ ShairportStopJoin
    \/ DiscoveryStart
    \/ \E ok \in BOOLEAN : DiscoveryInit(ok)
    \/ \E ret \in PollResults : DiscoveryIterate(ret)
    \/ DiscoveryStopBegin
    \/ DiscoveryStopJoin

SpecServices == InitServices /\ [][NextServices]_vars

\* C27: after stop() of the receiver returns, wherever the supervisor was
\* when stop() was called, the child has been terminated and reaped and the
\* supervisor joined: no child of this receiver is left running.
StopLeavesNoChild ==
    event.op = "shairportStopped" =>
       /\ ~shairport.joinable
       /\ shairport.child \in {"none", "reaped"}

\* C28: on every path by which the supervisor ends after it created the
\* namespace, the namespace and the macvlan link are deleted before it
\* returns.
SupervisorLeavesNoNamespace ==
    shairport # NoReceiver /\ shairport.run = "done" =>
       ~shairport.ns /\ ~shairport.link

\* C29: is_running() is true from a successful start() until the browser
\* thread completes; a failed initialisation, a hard disconnect or an error
\* sets it to false; after stop() returns it is false, the thread has been
\* joined and the snapshot callback is not invoked again.
RunningUntilCompletion ==
    discovery # NoBrowser =>
       /\ discovery.run \in {"init", "loop"} /\ discovery.stop = "idle"
             => discovery.running
       /\ discovery.run = "done" => ~discovery.running
       /\ event.op = "discoveryStopped" =>
             ~discovery.running /\ ~discovery.joinable
                /\ discovery.run = "none"
       /\ discovery.stopped => ~discovery.running /\ discovery.run = "none"
       /\ event.op = "discoveryPoll" /\ event.callback => ~event.afterStop

BrowserStoppedAndJoined ==
    /\ event.op = "discoveryStopped" /\ event.joined
    /\ discovery.stopped

\* C30: when the readiness gate fails in an iteration whose chunk is real,
\* the iteration goes to the requeue and nowhere else; the requeue puts the
\* chunk at the front of the group's queue, before the chunks that arrived
\* meanwhile; and neither step passes the chunk to a hostage or changes
\* chunkCounter or consecutiveSilenceChunks.
StalledRealChunkRequeued ==
    [][/\ event'.op = "gate" /\ event'.stall /\ ~event'.silence =>
             /\ threads'[event'.thread].pc = "requeue"
             /\ threads'[event'.thread].chunk = threads[event'.thread].chunk
             /\ threads'[event'.thread].idx = 0
             /\ UNCHANGED <<groups, chunkCounter, lastReal, dropped>>
       /\ event'.op = "requeue" =>
             LET g == event'.group
             IN /\ g \in DOMAIN groups /\ g \in DOMAIN groups'
                /\ groups'[g].chunkQueue =
                      <<event'.chunk>> \o groups[g].chunkQueue
                /\ groups'[g].consecutiveSilenceChunks =
                      groups[g].consecutiveSilenceChunks
                /\ event'.chunk = threads[event'.thread].chunk
                /\ threads[event'.thread].idx = 0
                /\ ~threads[event'.thread].isSilence
                /\ threads'[event'.thread].pc = "head"
                /\ UNCHANGED <<chunkCounter, lastReal, dropped>>
      ]_vars

RequeuedBeforeNewerChunk ==
    /\ event.op = "requeue"
    /\ event.behind > 0
    /\ Len(groups[event.group].chunkQueue) = event.behind + 1
    /\ Head(groups[event.group].chunkQueue) = event.chunk

\* C31: when the readiness gate fails in an iteration whose chunk is
\* silence, the silence chunk is dropped: the iteration passes it to no
\* hostage's sendAudioChunk.
StalledSilenceDropped ==
    event.op = "send" /\ event.silence /\ threads[event.thread].stalled
       => ~event.passed

\* C32: consecutiveSilenceChunks of a group grows by exactly one in every
\* iteration of its streamer that goes on to the send loop with a silence
\* chunk, is 0 after every such iteration with a real chunk and after every
\* ingest callback on the group, and no other step changes it.
SilenceCounterWrittenBySendAndIngest ==
    [][\A g \in DOMAIN groups \cap DOMAIN groups' :
          LET before == groups[g].consecutiveSilenceChunks
              after == groups'[g].consecutiveSilenceChunks
              here == "group" \in DOMAIN event' /\ event'.group = g
          IN /\ here /\ event'.op = "count" /\ event'.silence =>
                    after = before + 1
             /\ here /\ event'.op = "count" /\ ~event'.silence => after = 0
             /\ here /\ event'.op = "ingest" => after = 0
             /\ ~(here /\ event'.op \in {"count", "ingest"}) =>
                    after = before
      ]_vars

SilenceCounterResetByIngest ==
    /\ event.op = "ingest"
    /\ arrival # NotObserved
    /\ arrival.any = 0
    /\ groups[event.group].consecutiveSilenceChunks = 0

\* C33: whenever the streamer sends a real chunk directly after a run of
\* N >= 1 sent silence chunks, the iteration that sends it has logged
\* "Audio resumed after N silence chunks" with that N.
ResumeLoggedWithRunLength ==
    [][(event'.op = "count" /\ ~event'.silence
           /\ arrival # NotObserved /\ arrival.run >= 1)
        => arrival.logged = arrival.run]_vars

-----------------------------------------------------------------------------
(* The lifecycle with its threads scheduled: a streamer that can take a     *)
(* step of its loop takes one, a detached worker runs, and the UI thread    *)
(* goes on with a delete flow it has begun.                                 *)

FairLifecycle ==
    /\ \A t \in 1 .. MaxCreates : WF_vars(StreamerPop(t))
    /\ \A w \in 1 .. MaxCreates :
          WF_vars(\E ok \in SUBSET SpeakerIds : Worker(w, ok))
    /\ WF_vars(DeleteJoin)
    /\ WF_vars(DeleteErase)

SpecJoin == Init /\ [][Next]_vars /\ FairLifecycle

\* C34: once streamerRunning of a group is false its streamer leaves the
\* loop at the next check at its head, so the join of a delete flow returns
\* (unless the program has terminated meanwhile).
DeleteJoinReturns ==
    (ui.pc = "joining") ~> (ui.pc # "joining" \/ crashed)

\* C35: within connect(), a failed reachability probe aborts the current
\* attempt only: the remaining attempt of the order is still made, with a
\* probe of its own.
FailedProbeAbortsOneAttempt ==
    (event.op = "connect" /\ ~event.before.connected
        /\ event.outcomes[1] = "unreachable")
    => /\ event.probes = 2
       /\ event.outcomes[2] # "unreachable" =>
             /\ Len(event.attempts) = 1
             /\ event.attempts[1].authFlag = ~event.before.preferAuth

-----------------------------------------------------------------------------
(* The heartbeat of Tui::Run with its tick counter, Tui.cpp:1087-1113       *)

\* Tui.cpp:1094-1100: some group has been silent for more than 500 chunks
LongSilence ==
    \E g \in DOMAIN groups : groups[g].consecutiveSilenceChunks > 500

\* a plausible slip: the round starts one tick late
ShouldPulseLate(count, longSilence) ==
    count > (IF longSilence THEN 10 ELSE 30)

\* Tui.cpp:1101: shouldPulse = pulseCounter >= (longSilence ? 10 : 30)
ShouldPulse(count, longSilence) ==
    count >= (IF longSilence THEN 10 ELSE 30)

\* Tui.cpp:1106-1111: the rows pulse() is called on, in the order of the map
PulseCalls(states) ==
    SelectSeq(IdsInOrder(DOMAIN states),
              LAMBDA id : states[id].hostage # "null")

\* Tui.cpp:1087-1102: the 100 ms sleep, ++pulseCounter and the lock section
\* that decides whether this tick starts a pulse round
HeartbeatCheck ==
    /\ Alive
    /\ ui.pc = "idle"
    /\ pulseCounter' = pulseCounter + 1
    /\ ui' = IF ShouldPulse(pulseCounter + 1, LongSilence)
             THEN [pc |-> "pulse"] ELSE ui
    /\ event' = [op |-> "tick", count |-> pulseCounter + 1,
                 longSilence |-> LongSilence,
                 shouldPulse |-> ShouldPulse(pulseCounter + 1, LongSilence)]
    /\ UNCHANGED <<speakerStates, groups, workers, threads, procs, nextId,
                   chunkCounter, crashed, env, lastReal, dropped, raop,
                   arrival, locks, shairport, discovery>>

\* Tui.cpp:1104-1112: pulseCounter = 0 and the lock section of the round.
\* alive: the rows whose keep-alive succeeds; reconnected: the rows whose
\* connect() succeeds.
HeartbeatPulse(alive, reconnected) ==
    /\ Alive
    /\ ui.pc = "pulse"
    /\ pulseCounter' = 0
    /\ LET calls == PulseCalls(speakerStates)
           asked == {id \in Range(calls) : speakerStates[id].hostage = "up"}
       IN /\ alive \subseteq asked
          /\ reconnected \subseteq asked \ alive
          /\ speakerStates' =
                 [id \in DOMAIN speakerStates |->
                     IF id \in Range(calls)
                     THEN [speakerStates[id] EXCEPT
                              !.hostage = PulseHostage(@, id \in alive,
                                                       id \in reconnected)]
                     ELSE speakerStates[id]]
          /\ event' = [op |-> "pulseRound", calls |-> calls,
                       count |-> pulseCounter,
                       keepalive |-> asked, failed |-> asked \ alive]
    /\ ui' = UiIdle
    /\ UNCHANGED <<groups, workers, threads, procs, nextId, chunkCounter,
                   crashed, env, lastReal, dropped, raop, arrival, locks,
                   shairport, discovery>>

\* Group "g1" of speaker "A" after 499 silence chunks, speaker "B" known
\* and in no group: one more chunk of PCM may arrive, and the streamer may go
\* on with silence.
InitHeartbeat ==
    /\ groups = [g \in {"g1"} |->
                    [NewGroupInfo(kBaseGroupPort, <<"A">>) EXCEPT
                        !.process = 1, !.streamerThread = 1,
                        !.streamerRunning = TRUE,
                        !.consecutiveSilenceChunks = 499]]
    /\ speakerStates = [id \in {"A", "B"} |->
                           IF id = "A"
                           THEN [info |-> "ip1", connected |-> TRUE,
                                 reserved |-> TRUE, hostage |-> "up"]
                           ELSE [info |-> "ip1", connected |-> TRUE,
                                 reserved |-> FALSE, hostage |-> "null"]]
    /\ workers = EmptyMap
    /\ threads = [t \in {1} |-> NewThread("g1")]
    /\ procs = [p \in {1} |-> NewProc("g1")]
    /\ ui = UiIdle
    /\ nextId = 1
    /\ chunkCounter = 499
    /\ crashed = FALSE
    /\ env = [bytes |-> kChunkBytes, silence |-> PauseSilence]
    /\ lastReal = [id \in SpeakerIds |-> <<>>]
    /\ dropped = {}
    /\ raop = NoHostage
    /\ arrival = NotObserved
    /\ locks = NoTasks
    /\ shairport = NoReceiver
    /\ discovery = NoBrowser
    /\ pulseCounter = 0
    /\ event = NoEvent

NextHeartbeat ==
    \/ HeartbeatCheck
    \/ \E alive, reconnected \in SUBSET SpeakerIds :
          HeartbeatPulse(alive, reconnected)
    \/ Ingest(1, kChunkBytes)
    \/ StreamerPop(1)
    \/ StreamerGate(1, FALSE)
    \/ StreamerCount(1)
    \/ \E use, sent, reconnected \in BOOLEAN :
           StreamerSend(1, use, sent, reconnected)
    \/ StreamerSleep(1)
    \/ DeleteBegin("g1")
    \/ DeleteJoin
    \/ DeleteErase

SpecHeartbeat == InitHeartbeat /\ [][NextHeartbeat]_vars

\* C36: a tick adds one to the count; it starts a pulse round exactly when
\* the count has reached 30, or 10 while some group has more than 500
\* consecutive silence chunks, and otherwise calls pulse() on no hostage; a
\* pulse round sets the count to 0 and calls pulse() once on every row that
\* holds a hostage and on no other.
HeartbeatPulsesOnSchedule ==
    [][/\ event'.op = "tick" =>
             /\ pulseCounter' = pulseCounter + 1
             /\ speakerStates' = speakerStates
             /\ (ui'.pc = "pulse") <=>
                   (pulseCounter' >= 30 \/ (pulseCounter' >= 10 /\ LongSilence))
             /\ ui'.pc = "pulse" /\ ~LongSilence => pulseCounter' = 30
             /\ pulseCounter' <= 30
       /\ event'.op = "pulseRound" =>
             /\ ui.pc = "pulse" /\ ui'.pc = "idle"
             /\ pulseCounter' = 0
             /\ Range(event'.calls) =
                   {id \in DOMAIN speakerStates :
                       speakerStates[id].hostage # "null"}
             /\ \A i, j \in DOMAIN event'.calls :
                   event'.calls[i] = event'.calls[j] => i = j
             /\ \A id \in DOMAIN speakerStates \ Range(event'.calls) :
                   speakerStates'[id] = speakerStates[id]
       /\ event'.op \notin {"tick", "pulseRound", "send"} =>
             \A id \in DOMAIN speakerStates \cap DOMAIN speakerStates' :
                (speakerStates[id].hostage # "null"
                    /\ speakerStates'[id].hostage # "null")
                => speakerStates'[id].hostage = speakerStates[id].hostage
      ]_vars

PulsedEarlyInLongSilence ==
    /\ event.op = "pulseRound"
    /\ event.calls = <<"A">>
    /\ event.count = 10
    /\ LongSilence
    /\ pulseCounter = 0

\* C37: a worker never starts a streamer or a receiver on a row that
\* already has one, whatever the interleaving of create flows, their
\* detached workers and delete flows.
WorkerStartsOncePerRow ==
    event.op = "worker" => ~event.hadThread /\ ~event.hadProcess

\* C38: a hostage the streamer has snapshotted and has yet to call
\* waitForFramesReady or sendAudioChunk on in the current iteration is not
\* destroyed by any step of another task.
SnapshotOutlivesUse ==
    [][\A t \in DOMAIN threads : \A i \in DOMAIN threads[t].hostages :
          LET id == threads[t].hostages[i]
          IN (/\ \/ threads[t].pc \in {"gate", "count"}
                 \/ threads[t].pc = "send" /\ i >= threads[t].idx
              /\ speakerStates[id].hostage # "null")
             => speakerStates'[id].hostage # "null"
      ]_vars

-----------------------------------------------------------------------------
(* The shutdown sequence of main(), main.cpp:901-929, beside the streamer   *)
(* of a group and the reader of its receiver.  locks holds the owner of     *)
(* stateMutex, the place of main() in the sequence and the place of the     *)
(* reader in its loop; before: procs[1].bytes at the lock of the callback.  *)

ShutdownUnchanged ==
    UNCHANGED <<speakerStates, groups, workers, threads, procs, ui, nextId,
                chunkCounter, crashed, env, lastReal, dropped, raop, arrival,
                shairport, discovery, pulseCounter>>

\* main.cpp:904-912: streamerRunning = false for every group and the
\* streamer handles moved out, in one lock section
ShutdownFlag ==
    /\ locks.main = "inputLoop"
    /\ locks.owner = "none"
    /\ groups' = [g \in DOMAIN groups |->
                     [groups[g] EXCEPT !.streamerRunning = FALSE,
                                       !.streamerThread = 0]]
    /\ locks' = [locks EXCEPT !.main = "joinStreamers"]
    /\ event' = [op |-> "shutdownFlag"]
    /\ UNCHANGED <<speakerStates, workers, threads, procs, ui, nextId,
                   chunkCounter, crashed, env, lastReal, dropped, raop,
                   arrival, shairport, discovery, pulseCounter>>

\* main.cpp:914-916: t.join() for every streamer
ShutdownJoin ==
    /\ locks.main = "joinStreamers"
    /\ \A t \in DOMAIN threads : threads[t].pc = "exited"
    /\ locks' = [locks EXCEPT !.main = "lockStop"]
    /\ event' = [op |-> "shutdownJoin"]
    /\ ShutdownUnchanged

\* main.cpp:918-919: the second lock section is entered
ShutdownLock ==
    /\ locks.main = "lockStop"
    /\ locks.owner = "none"
    /\ locks' = [locks EXCEPT !.main = "stopping", !.owner = "main"]
    /\ event' = [op |-> "shutdownLock"]
    /\ ShutdownUnchanged

\* main.cpp:920-924: group.process->stop(), inside the lock section
ShutdownStopBegin ==
    /\ locks.main = "stopping"
    /\ shairport.joinable
    /\ ShairportStopBegin

ShutdownStopJoin ==
    /\ locks.main = "stopping"
    /\ ShairportStopJoin

\* main.cpp:925-929: the hostages are released and the lock section ends
ShutdownRelease ==
    /\ locks.main = "stopping"
    /\ shairport.stop = "idle"
    /\ ~shairport.joinable
    /\ speakerStates' = [id \in DOMAIN speakerStates |->
                            [speakerStates[id] EXCEPT !.hostage = "null"]]
    /\ locks' = [locks EXCEPT !.main = "done", !.owner = "none"]
    /\ event' = [op |-> "shutdownDone"]
    /\ UNCHANGED <<groups, workers, threads, procs, ui, nextId, chunkCounter,
                   crashed, env, lastReal, dropped, raop, arrival, shairport,
                   discovery, pulseCounter>>

\* Shairport.cpp:298-303: running_ was true at the test of the loop and
\* fread returned n > 0 bytes, which the child wrote before it ended; the
\* callback is called
ReaderDeliver ==
    /\ locks.reader = "loop"
    /\ shairport.run = "read"
    /\ shairport.running
    /\ env.bytes > 0
    /\ locks' = [locks EXCEPT !.reader = "callback"]
    /\ event' = [op |-> "readerDeliver"]
    /\ ShutdownUnchanged

\* Tui.cpp:871: the lock_guard of the callback; it waits while another task
\* owns stateMutex
ReaderLock ==
    /\ locks.reader = "callback"
    /\ locks.owner = "none"
    /\ locks' = [locks EXCEPT !.reader = "locked", !.owner = "reader",
                              !.before = procs[1].bytes]
    /\ event' = [op |-> "readerLock"]
    /\ ShutdownUnchanged

\* Tui.cpp:872-886: the body of the callback, under the lock
ReaderIngest(size) ==
    /\ locks.reader = "locked"
    /\ procs[1].bytes = locks.before
    /\ Ingest(1, size)

\* Tui.cpp:887: the callback returns, the lock_guard is destroyed
ReaderUnlock ==
    /\ locks.reader = "locked"
    /\ procs[1].bytes > locks.before
    /\ locks' = [locks EXCEPT !.reader = "loop", !.owner = "none"]
    /\ event' = [op |-> "readerUnlock"]
    /\ ShutdownUnchanged

\* Shairport.cpp:298-314: the test of the loop and an fread that returns 0
ReaderLoop ==
    /\ locks.reader = "loop"
    /\ ShairportRead

\* main.cpp:120-124: the head section of the streamer needs stateMutex
ShutdownStreamer ==
    /\ locks.owner = "none"
    /\ StreamerPop(1)

\* Group "g1" as the create worker left it, its receiver started
\* (Shairport.cpp:60-64) and its supervisor about to set up the namespace;
\* main() is in inputLoop.
InitShutdown ==
    /\ PausedAudioState(PauseChunks * kChunkBytes, 0)
    /\ arrival = NotObserved
    /\ locks = [owner |-> "none", main |-> "inputLoop", reader |-> "loop",
                before |-> 0]
    /\ shairport = [NewShairport EXCEPT !.running = TRUE, !.joinable = TRUE,
                                        !.run = "netns"]
    /\ discovery = NoBrowser
    /\ pulseCounter = 0

NextShutdown ==
    \/ ShutdownFlag
    \/ ShutdownJoin
    \/ ShutdownLock
    \/ ShutdownStopBegin
    \/ ShutdownStopJoin
    \/ ShutdownRelease
    \/ \E ok \in BOOLEAN : ShairportSetup(ok)
    \/ ChildExits
    \/ ReaderLoop
    \/ ReaderDeliver
    \/ ReaderLock
    \/ \E size \in IngestSizes : ReaderIngest(size)
    \/ ReaderUnlock
    \/ ShutdownStreamer

SpecShutdown == InitShutdown /\ [][NextShutdown]_vars

\* C39: the shutdown never reaches a state in which main() holds stateMutex
\* and waits in join for the reader of a receiver while that reader waits
\* for stateMutex to deliver a buffer, so the sequence always terminates.
ShutdownNeverWaitsForWaiter ==
    ~(/\ locks.owner = "main"
      /\ shairport.stop = "join"
      /\ shairport.joinable
      /\ locks.reader = "callback")

-----------------------------------------------------------------------------
(* Re-chunking alone: the PCM callback of one group whose streamer does not *)
(* run, with buffers of sizes that are not multiples of a chunk             *)

\* sizes of the buffers the reader hands to the callback, among
\* 1 .. kReadBufferBytes (Shairport.cpp:297-299)
RechunkSizes ==
    {1, kChunkBytes \div 2, kChunkBytes - 1, kChunkBytes, kChunkBytes + 1,
     kReadBufferBytes}

InitRechunk == AudioState(RechunkChunks * kChunkBytes)

NextRechunk == \E size \in RechunkSizes : Ingest(1, size)

SpecRechunk == InitRechunk /\ [][NextRechunk]_vars

\* the segments of a queue of chunks, one chunk after the other
RECURSIVE JoinAll(_)
JoinAll(queue) ==
    IF queue = <<>> THEN <<>> ELSE Head(queue) \o JoinAll(Tail(queue))

\* the segments b are the first n bytes of the stream of source p, in order
\* and without gap or repetition
IsStreamPrefix(b, p, n) ==
    /\ Size(b) = n
    /\ \A i \in DOMAIN b :
          /\ b[i].src = p
          /\ b[i].len > 0
          /\ b[i].off = (IF i = 1 THEN 0 ELSE b[i - 1].off + b[i - 1].len)

\* C40: while the queue has not overflowed and has not been popped, the
\* queued chunks followed by pendingBytes are exactly the bytes of all the
\* buffers ingested so far, in their order.
RechunkKeepsEveryByte ==
    dropped = {} =>
       IsStreamPrefix(JoinAll(groups["g1"].chunkQueue)
                         \o groups["g1"].pendingBytes,
                      1, procs[1].bytes)

\* a buffer that ends inside a chunk has been ingested after a buffer that
\* started inside an earlier one: two chunks queued, bytes left pending
ChunkSpansBuffers ==
    /\ event.op = "ingest"
    /\ event.size = kChunkBytes + 1
    /\ Len(groups["g1"].chunkQueue) >= 2
    /\ \E i \in DOMAIN groups["g1"].chunkQueue :
          Len(groups["g1"].chunkQueue[i]) >= 1
             /\ groups["g1"].chunkQueue[i][1].off % kChunkBytes = 0
    /\ Size(groups["g1"].pendingBytes) \notin {0, 1}
    /\ procs[1].bytes % (kChunkBytes \div 2) # 0

=============================================================================
